---- MODULE Spec2Model ----
(***************************************************************************)
(* A model of the four in-memory rate limiters of api-rate-limiter:        *)
(* FixedWindowRateLimiter, SlidingWindowLogRateLimiter (FixedWindow.js,    *)
(* SlidingWindowLog.js), TokenBucketRateLimiter (TokenBucket.js) and       *)
(* LeakyBucketRateLimiter (LeakyBucket.js).                                *)
(*                                                                         *)
(* One behaviour follows ONE limiter instance; its class is chosen when it *)
(* is constructed (algorithm).  Times are milliseconds, as Date.now()      *)
(* returns them.  Token Bucket tokens and Leaky Bucket sizes are JS        *)
(* doubles; the model stores them in thousandths (Milli), which is exact   *)
(* for integer rates because elapsed ms * rate/s = thousandths added.      *)
(* Every `async check` has no await in its body, so the body runs to       *)
(* completion inside the call; the caller's continuation receives the      *)
(* settled promise later (Deliver).                                        *)
(***************************************************************************)
EXTENDS Integers, Sequences, FiniteSets, TLC

(***************************************************************************)
(* Bounds of the model.                                                    *)
(***************************************************************************)
\* number of small clock steps explored
MaxTicks == 2
\* largest maxRequests / capacity a limiter is constructed with
MaxLimit == 2
\* number of check calls whose continuation may be waiting at once
MaxInflight == 2

Milli == 1000

Clients == {"A", "B"}
Algorithms == {"FixedWindow", "TokenBucket", "LeakyBucket", "SlidingWindowLog"}

\* the small clock step, and one long idle period (just over maxIdleTime)
TickSteps == {500}
IdleSteps == {600500}
\* the values Date.now() may have when the limiter is constructed
StartClocks == {0}
\* how far the clock may advance between two Date.now() reads of one call
Skews == {0, 500}

VARIABLES
    algorithm,        \* class of the limiter instance
    options,          \* the options object its constructor was given
    windowMs,         \* this.windowMs        (FixedWindow, SlidingWindowLog)
    maxRequests,      \* this.maxRequests     (FixedWindow, SlidingWindowLog)
    capacity,         \* this.capacity        (TokenBucket, LeakyBucket)
    refillRate,       \* this.refillRate      (TokenBucket)
    leakRate,         \* this.leakRate        (LeakyBucket)
    tokensPerRequest, \* this.tokensPerRequest (TokenBucket)
    clock,            \* what Date.now() returns
    clients,          \* FixedWindow this.clients: clientId -> {count, windowStart}
    tbBuckets,        \* TokenBucket this.buckets: clientId -> {tokens, lastRefill}
    lbBuckets,        \* LeakyBucket this.buckets: clientId -> {size, lastLeak}
    requestLogs,      \* SlidingWindowLog this.requestLogs: clientId -> {log}
    pending,          \* the settled promises of the check calls not yet resumed
    admitted,         \* history: per client, the times of its allowed checks
    sinceNew,         \* history: per client, calls since its record was created
    solo,             \* history: the same run without the other clients' checks
    run,              \* history: the calls of one client, counted burst by burst
    returned,         \* history: what the latest inspection call returned
    unswept,          \* history: the Map of the same run without the cleanup runs
    sweeper,          \* the timer behind this.cleanupInterval and its process
    retry,            \* history: the wait the latest denied check reported
    request           \* the HTTP request in the rate-limiter middleware

config == <<algorithm, options, windowMs, maxRequests, capacity, refillRate,
            leakRate, tokensPerRequest>>
stores == <<clients, tbBuckets, lbBuckets, requestLogs>>
history == <<admitted, sinceNew, solo, run, returned, unswept>>
vars == <<config, clock, stores, pending, history, sweeper, retry, request>>

(***************************************************************************)
(* JavaScript values.                                                      *)
(***************************************************************************)
\* a JS number argument: finite (v in thousandths or units), NaN or Infinity
Num(v) == [k |-> "num", v |-> v]
NaN == [k |-> "nan", v |-> 0]
Infinity == [k |-> "inf", v |-> 0]
IsFinite(x) == x.k = "num"

\* Math.floor(a / b) and Math.ceil(a / b) for integers a, b with b # 0
FloorDiv(a, b) == IF b > 0 THEN a \div b ELSE (0 - a) \div (0 - b)
\* (mutation) the quotient rounded down where the code rounds up
CeilDivDown(a, b) == FloorDiv(a, b)
CeilDiv(a, b) == 0 - FloorDiv(0 - a, b)
Min(a, b) == IF a <= b THEN a ELSE b
Max(a, b) == IF a >= b THEN a ELSE b

\* options.x || dflt : 0, NaN and undefined are falsy
Undefined == [k |-> "undefined", v |-> 0]
OrDefault(x, dflt) == IF x.k = "num" /\ x.v # 0 THEN x.v ELSE dflt

\* null, and the value of returned before any inspection call
Null == [k |-> "null", v |-> 0]
NoReturn == [k |-> "none", v |-> 0]
\* no request has reached the middleware yet
NoRequest ==
    [phase |-> "none", client |-> "", result |-> [k |-> "none", v |-> 0],
     next |-> 0, handler |-> 0, status |-> 0, retryAfter |-> <<>>]
\* the value of retry while the latest check of the observed client was not
\* a denied one
NoRetry == [at |-> 0 - 1, wait |-> 0, cost |-> [k |-> "num", v |-> 0], kept |-> FALSE]

\* an absent Map entry (Map.get returns undefined)
Absent == Undefined
Has(store, c) == store[c] # Absent
Size(store) == Cardinality({c \in Clients : Has(store, c)})
EmptyStore == [c \in Clients |-> Absent]

\* pending is the microtask queue: one settled promise per check call whose
\* caller has not been resumed yet, oldest first
CanCall == Len(pending) < MaxInflight
Quiet == pending = <<>>
Settle(result) == Append(pending, result)
Returned(i) == i \in DOMAIN pending /\ ~pending[i].threw
\* a check call has just run: its outcome is the newest entry of pending
Called == Len(pending') = Len(pending) + 1
Outcome == pending'[Len(pending')]

\* new Date(ms).toISOString(): defined for a finite time value only (a
\* RangeError otherwise); the string YYYY-MM-DDTHH:mm:ss.sssZ names one
\* millisecond and is kept as the string of that millisecond
DateIsValid(x) == IsFinite(x)
ToISOString(ms) == [iso |-> ms]
\* the time value an ISO string names (Date.parse)
DateParse(string) == string.iso

(***************************************************************************)
(* History kept for the properties (not program state).                    *)
(***************************************************************************)
\* admitted[c]: the times of the allowed checks of c (window limiters) that
\* lie in the trailing window (clock - windowMs, clock]; counting stops at
\* AdmitCap, past every number the properties compare it with
AdmitCap == 2 * MaxLimit + 1
Admit(c, now, allowed) ==
    IF allowed /\ Len(admitted[c]) < AdmitCap
    THEN [admitted EXCEPT ![c] = Append(@, now)]
    ELSE admitted

\* sinceNew[c]: the number of check calls for c since its record was created,
\* while the clock has stayed in the window of the first one; 0 afterwards
RunCap == MaxLimit + 3
SinceNew(c, fresh) ==
    [sinceNew EXCEPT ![c] =
        IF fresh THEN 1 ELSE IF @ > 0 THEN Min(@ + 1, RunCap) ELSE 0]

\* solo.store is the limiter's Map, and solo.out the decisions waiting, in the
\* run in which the checks of every client but Observed are left out and all
\* the rest happens at the same times
Observed == "A"
NotObserved == [threw |-> FALSE, client |-> "other"]
SoloCheck(c, record, result) ==
    IF c = Observed
    THEN [store |-> [solo.store EXCEPT ![c] = record],
          out |-> Append(solo.out, result)]
    ELSE [solo EXCEPT !.out = Append(@, NotObserved)]
SoloStore(store) == [solo EXCEPT !.store = store]

\* the level of a full bucket (in thousandths) or of a full log (in entries)
Full == capacity * Milli + maxRequests

\* run: the check calls of Observed so far. at is the time of the latest one
\* (-1 before the first) and left the level (tokens, size) it left; the calls
\* made at that one time are a burst: seen is the level its first check read
\* before admission, p and gap the level left by the call before the burst and
\* the time since (gap -1 for a never-seen client); filledBy is the number of
\* calls made when a call first left the level at capacity (0 before)
NoRun == [at |-> 0 - 1, left |-> 0, p |-> 0, gap |-> 0 - 1, seen |-> 0,
          calls |-> 0, allowed |-> 0, burstCalls |-> 0, burstAllowed |-> 0,
          filledBy |-> 0]
Count(result, seen, left) ==
    LET fresh == result.now # run.at
        one == IF result.allowed THEN 1 ELSE 0
    IN  [at |-> result.now,
         left |-> left,
         p |-> IF fresh THEN run.left ELSE run.p,
         gap |-> IF ~fresh THEN run.gap
                 ELSE IF run.at < 0 THEN 0 - 1 ELSE result.now - run.at,
         seen |-> IF fresh THEN seen ELSE run.seen,
         calls |-> run.calls + 1,
         allowed |-> run.allowed + one,
         burstCalls |-> IF fresh THEN 1 ELSE run.burstCalls + 1,
         burstAllowed |-> IF fresh THEN one ELSE run.burstAllowed + one,
         filledBy |-> IF run.filledBy = 0 /\ left = Full
                      THEN run.calls + 1 ELSE run.filledBy]

\* the calls of a run are counted up to MaxCalls
MaxCalls == 3 * (capacity + maxRequests)
MoreCalls == run.calls < MaxCalls

Windowed == algorithm \in {"FixedWindow", "SlidingWindowLog"}

\* the clock moves to t: entries leave the trailing window, runs end at a
\* window edge
AdvanceHistory(t) ==
    IF Windowed
    THEN /\ admitted' = [c \in Clients |->
                           SelectSeq(admitted[c], LAMBDA s : s > t - windowMs)]
         /\ sinceNew' = IF FloorDiv(t, windowMs) = FloorDiv(clock, windowMs)
                        THEN sinceNew ELSE [c \in Clients |-> 0]
    ELSE UNCHANGED <<admitted, sinceNew>>

(***************************************************************************)
(* FixedWindowRateLimiter                                                  *)
(***************************************************************************)
FWDefaultWindowMs == 60000
FWDefaultMaxRequests == 100

\* constructor(options)
FWConstructor(o) ==
    /\ windowMs = OrDefault(o.windowMs, FWDefaultWindowMs)
    /\ maxRequests = OrDefault(o.maxRequests, FWDefaultMaxRequests)
    /\ capacity = 0 /\ refillRate = 0 /\ leakRate = 0 /\ tokensPerRequest = 0

\* getCurrentWindowStart(timestamp)
getCurrentWindowStart(timestamp) == FloorDiv(timestamp, windowMs) * windowMs

\* check, lines 92-102: get or create the client record
FWGetOrCreate(store, c, currentWindowStart) ==
    IF Has(store, c) THEN store[c]
    ELSE [count |-> 0, windowStart |-> currentWindowStart]

\* (mutation) the window test written <=, so every call resets the counter
FWNewWindowAlways(clientData, currentWindowStart) ==
    IF clientData.windowStart <= currentWindowStart
    THEN [count |-> 0, windowStart |-> currentWindowStart]
    ELSE clientData

\* (mutation) the new window adopted and the counter carried into it
FWNewWindowKeepCount(clientData, currentWindowStart) ==
    IF clientData.windowStart < currentWindowStart
    THEN [clientData EXCEPT !.windowStart = currentWindowStart]
    ELSE clientData

\* check, lines 104-114: a newer window resets the counter
FWNewWindow(clientData, currentWindowStart) ==
    IF clientData.windowStart < currentWindowStart
    THEN [count |-> 0, windowStart |-> currentWindowStart]
    ELSE clientData

\* (mutation) the limit compared with <= instead of <
FWAllowedOffByOne(clientData) == clientData.count <= maxRequests

\* check, line 117
FWAllowed(clientData) == clientData.count < maxRequests

\* check, lines 119-121
\* (mutation) the count incremented by a denied call too
FWCountAlways(clientData) == [clientData EXCEPT !.count = @ + 1]
FWCount(clientData) ==
    IF FWAllowed(clientData) THEN [clientData EXCEPT !.count = @ + 1]
    ELSE clientData

\* check, lines 123-134: the decision object
FWResult(c, now, before, after) ==
    LET resetTime == getCurrentWindowStart(now) + windowMs
    IN  [threw |-> FALSE, client |-> c, cost |-> Num(1),
         now |-> now, avail |-> maxRequests - before.count,
         allowed |-> FWAllowed(before),
         limit |-> maxRequests,
         remaining |-> Max(0, maxRequests - after.count),
         resetTime |-> ToISOString(resetTime),
         resetIn |-> CeilDiv(resetTime - now, 1000),
         retryAfter |-> <<>>,
         algorithm |-> "FixedWindow"]

\* check, lines 89-114: the record the admission test reads
FWBefore(store, c, now) ==
    FWNewWindow(FWGetOrCreate(store, c, getCurrentWindowStart(now)),
                getCurrentWindowStart(now))
\* the record a check leaves, and the decision it returns
FWAfter(store, c, now) == FWCount(FWBefore(store, c, now))
FWDecision(store, c, now) ==
    FWResult(c, now, FWBefore(store, c, now), FWAfter(store, c, now))

\* (mutation) the record of a client that is over the limit deleted
FWStoreDropFull(store, c, now) ==
    IF FWAllowed(FWBefore(store, c, now))
    THEN [store EXCEPT ![c] = FWAfter(store, c, now)]
    ELSE [store EXCEPT ![c] = Absent]

\* check, lines 92-121: the Map once the call has run (the record is put in
\* the Map when it is created and updated in place afterwards)
FWStore(store, c, now) == [store EXCEPT ![c] = FWAfter(store, c, now)]

\* async check(clientId): what it does to the limiter
FWCall(c) ==
    /\ algorithm = "FixedWindow"
    /\ CanCall
    /\ clients' = FWStore(clients, c, clock)
    /\ pending' = Settle(FWDecision(clients, c, clock))
    /\ admitted' = Admit(c, clock, FWDecision(clients, c, clock).allowed)
    /\ sinceNew' = SinceNew(c, ~Has(clients, c))
    /\ solo' = SoloCheck(c, FWAfter(solo.store, c, clock),
                         FWDecision(solo.store, c, clock))
    /\ UNCHANGED <<config, clock, tbBuckets, lbBuckets, requestLogs>>

FWCheck(c) == FWCall(c) /\ UNCHANGED <<run, returned, unswept, sweeper, retry, request>>

\* (mutation) entries go one window after their window started
FWExpiredOneWindow(data, now) == data.windowStart < now - windowMs

\* cleanup(): entries whose window started more than two windows ago go
FWExpired(data, now) == data.windowStart < now - (windowMs * 2)
FWSweep(store, now) ==
    [c \in Clients |->
        IF Has(store, c) /\ FWExpired(store[c], now) THEN Absent ELSE store[c]]
FWCleanup ==
    /\ algorithm = "FixedWindow"
    /\ Quiet
    /\ clients' = FWSweep(clients, clock)
    /\ solo' = SoloStore(FWSweep(solo.store, clock))
    /\ UNCHANGED <<config, run, returned, unswept, sweeper, retry, request, clock, tbBuckets, lbBuckets, requestLogs, pending,
                   admitted, sinceNew>>

\* getStats(): reads this.clients.size and the configuration
FWGetStats ==
    /\ algorithm = "FixedWindow"
    /\ Quiet
    /\ Size(clients) >= 0
    /\ UNCHANGED vars

(***************************************************************************)
(* SlidingWindowLogRateLimiter                                             *)
(***************************************************************************)
SWDefaultWindowMs == 60000
SWDefaultMaxRequests == 100

\* constructor(options)
SWConstructor(o) ==
    /\ windowMs = OrDefault(o.windowMs, SWDefaultWindowMs)
    /\ maxRequests = OrDefault(o.maxRequests, SWDefaultMaxRequests)
    /\ capacity = 0 /\ refillRate = 0 /\ leakRate = 0 /\ tokensPerRequest = 0

\* (mutation) an entry exactly windowMs old still counted
InWindowInclusive(timestamp, now) == timestamp >= now - windowMs
\* (mutation) the window taken from the fixed grid instead of now - windowMs
InWindowFixedGrid(timestamp, now) ==
    timestamp >= FloorDiv(now, windowMs) * windowMs

\* cleanLog(log, now): keep the timestamps inside the window
InWindow(timestamp, now) == timestamp > now - windowMs
cleanLog(log, now) == SelectSeq(log, LAMBDA timestamp : InWindow(timestamp, now))

\* (mutation) one log shared by all the clients
SWGetOrCreateShared(store, c) ==
    IF \E d \in Clients : Has(store, d)
    THEN store[CHOOSE d \in Clients : Has(store, d)].log
    ELSE <<>>

\* check, lines 449-465: get or create the log, then compact it
SWGetOrCreate(store, c) == IF Has(store, c) THEN store[c].log ELSE <<>>

\* check, line 471
SWAllowed(requestCount) == requestCount < maxRequests

\* (mutation) the timestamp of a denied check logged too
SWPushAlways(log, now) == Append(log, now)

\* check, lines 473-476
SWPush(log, now) == IF SWAllowed(Len(log)) THEN Append(log, now) ELSE log

\* check, lines 484-489: the rejection is logged with new Date(log[0]),
\* an Invalid Date (toISOString throws) when the log is empty
SWThrows(cleaned) == ~SWAllowed(Len(cleaned)) /\ Len(cleaned) = 0

\* check, lines 492-521: the decision object
SWResult(c, now, cleaned, log) ==
    LET requestCount == Len(cleaned)
        allowed == SWAllowed(requestCount)
        oldestTimestamp == IF Len(log) > 0 THEN log[1] ELSE now
        resetTime == oldestTimestamp + windowMs
        resetIn == CeilDiv(resetTime - now, 1000)
        inWindow == IF allowed THEN Len(log) ELSE requestCount
    IN  [threw |-> FALSE, client |-> c, cost |-> Num(1),
         now |-> now, avail |-> maxRequests - requestCount,
         allowed |-> allowed,
         limit |-> maxRequests,
         remaining |-> Max(0, maxRequests - inWindow),
         resetTime |-> ToISOString(resetTime),
         resetIn |-> resetIn,
         retryAfter |-> <<IF allowed THEN 0 ELSE resetIn>>,
         algorithm |-> "SlidingWindowLog",
         requestsInWindow |-> inWindow]

Thrown(c, cost, now) ==
    [threw |-> TRUE, client |-> c, cost |-> cost, now |-> now]

\* check, lines 463-465: the compacted log the admission test reads
SWBefore(store, c, now) == cleanLog(SWGetOrCreate(store, c), now)
\* the log a check leaves, and what it returns (or throws)
SWAfter(store, c, now) == SWPush(SWBefore(store, c, now), now)
\* (mutation) the reset time counted from the call, no log entry looked at
SWDecisionResetFromNow(store, c, now) ==
    IF SWThrows(SWBefore(store, c, now)) THEN Thrown(c, Num(1), now)
    ELSE SWResult(c, now, SWBefore(store, c, now), <<>>)
\* (mutation) the decision computed from the log as it was before the push
SWDecisionCountBefore(store, c, now) ==
    IF SWThrows(SWBefore(store, c, now)) THEN Thrown(c, Num(1), now)
    ELSE SWResult(c, now, SWBefore(store, c, now), SWBefore(store, c, now))
SWDecision(store, c, now) ==
    IF SWThrows(SWBefore(store, c, now)) THEN Thrown(c, Num(1), now)
    ELSE SWResult(c, now, SWBefore(store, c, now), SWAfter(store, c, now))

\* async check(clientId): what it does to the limiter
SWCall(c) ==
    /\ algorithm = "SlidingWindowLog"
    /\ CanCall
    /\ requestLogs' = [requestLogs EXCEPT ![c] =
                          [log |-> SWAfter(requestLogs, c, clock)]]
    /\ pending' = Settle(SWDecision(requestLogs, c, clock))
    /\ admitted' = Admit(c, clock,
                         SWAllowed(Len(SWBefore(requestLogs, c, clock))))
    /\ sinceNew' = SinceNew(c, ~Has(requestLogs, c))
    /\ solo' = SoloCheck(c, [log |-> SWAfter(solo.store, c, clock)],
                         SWDecision(solo.store, c, clock))
    /\ UNCHANGED <<config, clock, clients, tbBuckets, lbBuckets>>

SWCheck(c) == SWCall(c) /\ UNCHANGED <<run, returned, unswept, sweeper, retry, request>>

\* the same call, counted in run: the level is the length of the log
SWCounted(c) ==
    /\ MoreCalls
    /\ UNCHANGED <<returned, unswept, sweeper, retry, request>>
    /\ SWCall(c)
    /\ run' = IF c = Observed
              THEN Count(Outcome, maxRequests - Outcome.avail,
                         Len(requestLogs'[c].log))
              ELSE run

\* (mutation) the stored log reported as it is, aged-out timestamps included
getLogStateStored(store, c, now) ==
    IF ~Has(store, c) THEN Null
    ELSE [totalRequests |-> Len(store[c].log),
          maxRequests |-> maxRequests,
          remaining |-> maxRequests - Len(store[c].log),
          timestamps |-> [i \in DOMAIN store[c].log |->
                             ToISOString(store[c].log[i])]]

\* getLogState(clientId): null for an unknown client, else a report computed
\* from a compacted copy of the log
getLogState(store, c, now) ==
    IF ~Has(store, c) THEN Null
    ELSE LET cleanedLog == cleanLog(store[c].log, now)
         IN  [totalRequests |-> Len(cleanedLog),
              maxRequests |-> maxRequests,
              remaining |-> maxRequests - Len(cleanedLog),
              timestamps |-> [i \in DOMAIN cleanedLog |->
                                 ToISOString(cleanedLog[i])]]
SWGetLogState(c) ==
    /\ algorithm = "SlidingWindowLog"
    /\ Quiet
    /\ getLogState(requestLogs, c, clock) = Null <=> ~Has(requestLogs, c)
    /\ UNCHANGED vars

\* the same call, what it returns kept in returned
SWGetLogStateSeen(c) ==
    /\ algorithm = "SlidingWindowLog"
    /\ Quiet
    /\ returned' = [client |-> c, value |-> getLogState(requestLogs, c, clock)]
    /\ UNCHANGED <<config, clock, stores, pending, admitted, sinceNew, solo, run,
                   unswept, sweeper, retry, request>>

\* (mutation) a log deleted as soon as one of its entries has expired, the
\* entries still in the window with it
SWSweepStale(store, now) ==
    [c \in Clients |->
        IF ~Has(store, c) THEN Absent
        ELSE IF Len(cleanLog(store[c].log, now)) < Len(store[c].log) THEN Absent
        ELSE store[c]]

\* cleanup(): compact every log, delete the empty ones
SWSweep(store, now) ==
    [c \in Clients |->
        IF ~Has(store, c) THEN Absent
        ELSE IF Len(cleanLog(store[c].log, now)) = 0 THEN Absent
        ELSE [log |-> cleanLog(store[c].log, now)]]
SWCleanup ==
    /\ algorithm = "SlidingWindowLog"
    /\ Quiet
    /\ requestLogs' = SWSweep(requestLogs, clock)
    /\ solo' = SoloStore(SWSweep(solo.store, clock))
    /\ UNCHANGED <<config, run, returned, unswept, sweeper, retry, request, clock, clients, tbBuckets, lbBuckets, pending,
                   admitted, sinceNew>>

\* getStats(): sums the log lengths
SWGetStats ==
    /\ algorithm = "SlidingWindowLog"
    /\ Quiet
    /\ Size(requestLogs) >= 0
    /\ UNCHANGED vars

(***************************************************************************)
(* Reading the clock twice in one call.                                    *)
(***************************************************************************)
\* the small steps taken so far (the long idle period is taken at most once)
IdleMs == CHOOSE d \in IdleSteps : TRUE
SmallElapsed == clock % IdleMs
CanAdvance(d) == SmallElapsed + d <= MaxTicks * 500

\* a helper that calls Date.now() itself reads clock + d, d the time the
\* call has taken so far
LaterReads == {d \in Skews : d = 0 \/ CanAdvance(d)}

\* Math.trunc(a / b), the time value new Date(a / b) keeps
TruncDiv(a, b) == IF (a >= 0) = (b > 0) THEN FloorDiv(a, b) ELSE CeilDiv(a, b)

\* x >= cost, x finite: false against NaN and against Infinity
GreaterEq(x, cost) == IsFinite(cost) /\ x >= cost.v

(***************************************************************************)
(* TokenBucketRateLimiter (tokens in thousandths)                          *)
(***************************************************************************)
TBDefaultCapacity == 100
TBDefaultRefillRate == 10
TBDefaultTokensPerRequest == 1
TBMaxIdleTime == 600000

\* constructor(options)
TBConstructor(o) ==
    /\ capacity = OrDefault(o.capacity, TBDefaultCapacity)
    /\ refillRate = OrDefault(o.refillRate, TBDefaultRefillRate)
    /\ tokensPerRequest = OrDefault(o.tokensPerRequest, TBDefaultTokensPerRequest)
    /\ windowMs = 0 /\ maxRequests = 0 /\ leakRate = 0

\* (mutation) the elapsed time counted in whole seconds
TBTokensToAddWholeSeconds(bucket, now) ==
    FloorDiv(now - bucket.lastRefill, Milli) * Milli * refillRate
\* refillBucket(bucket), Date.now() reading now
TBTokensToAdd(bucket, now) == (now - bucket.lastRefill) * refillRate
\* (mutation) the refill not capped at capacity
refillBucketUncapped(bucket, now) ==
    [tokens |-> bucket.tokens + TBTokensToAdd(bucket, now), lastRefill |-> now]
refillBucket(bucket, now) ==
    [tokens |-> Min(capacity * Milli, bucket.tokens + TBTokensToAdd(bucket, now)),
     lastRefill |-> now]

\* (mutation) a new bucket created empty
TBGetOrCreateEmpty(store, c, now) ==
    IF Has(store, c) THEN store[c] ELSE [tokens |-> 0, lastRefill |-> now]
\* check, lines 172-187: get or create the bucket (new buckets are full)
TBGetOrCreate(store, c, now) ==
    IF Has(store, c) THEN store[c]
    ELSE [tokens |-> capacity * Milli, lastRefill |-> now]

\* check, line 193
TBAllowed(bucket, tokensRequired) == GreaterEq(bucket.tokens, tokensRequired)

\* (mutation) the consumed tokens never written back
TBConsumeLost(bucket, tokensRequired) == bucket

\* check, lines 195-198
TBConsume(bucket, tokensRequired) ==
    IF TBAllowed(bucket, tokensRequired)
    THEN [bucket EXCEPT !.tokens = @ - tokensRequired.v]
    ELSE bucket

\* check, lines 212-215: resetTime is a valid Date iff tokensNeeded is finite
TBThrows(bucket, tokensRequired) ==
    ~TBAllowed(bucket, tokensRequired) /\ ~DateIsValid(tokensRequired)

\* check, lines 212-231: the decision object
TBResult(c, now, tokensRequired, before, after) ==
    LET allowed == TBAllowed(before, tokensRequired)
        tokensNeeded == IF allowed THEN 0 ELSE tokensRequired.v - after.tokens
        resetTime == now + TruncDiv(tokensNeeded, refillRate)
        resetIn == CeilDiv(tokensNeeded, refillRate * Milli)
    IN  [threw |-> FALSE, client |-> c,
         cost |-> tokensRequired, now |-> after.lastRefill,
         avail |-> before.tokens,
         allowed |-> allowed,
         limit |-> capacity,
         remaining |-> FloorDiv(after.tokens, Milli),
         resetTime |-> ToISOString(resetTime),
         resetIn |-> resetIn,
         retryAfter |-> <<IF allowed THEN 0 ELSE resetIn>>,
         algorithm |-> "TokenBucket",
         tokensRemaining |-> after.tokens]

\* check, lines 170-190: the refilled bucket the admission test reads; check
\* reads the clock (now), then refillBucket reads it again (later)
TBBefore(store, c, now, later) ==
    refillBucket(TBGetOrCreate(store, c, now), later)
\* (mutation) the refill of a denied check not written to the bucket
TBAfterDeniedUntouched(store, c, k, now, later) ==
    IF TBAllowed(TBBefore(store, c, now, later), k)
    THEN TBConsume(TBBefore(store, c, now, later), k)
    ELSE TBGetOrCreate(store, c, now)
\* the bucket a check leaves, and what it returns (or throws)
TBAfter(store, c, k, now, later) == TBConsume(TBBefore(store, c, now, later), k)
TBDecision(store, c, k, now, later) ==
    IF TBThrows(TBBefore(store, c, now, later), k) THEN Thrown(c, k, later)
    ELSE TBResult(c, now, k, TBBefore(store, c, now, later),
                  TBAfter(store, c, k, now, later))

\* async check(clientId, tokensRequired): what it does to the limiter
TBCall(c, tokensRequired) ==
    /\ algorithm = "TokenBucket"
    /\ CanCall
    /\ \E d \in LaterReads :
        /\ clock' = clock + d
        /\ tbBuckets' = [tbBuckets EXCEPT ![c] =
              TBAfter(tbBuckets, c, tokensRequired, clock, clock + d)]
        /\ pending' = Settle(
              TBDecision(tbBuckets, c, tokensRequired, clock, clock + d))
        /\ solo' = SoloCheck(c,
              TBAfter(solo.store, c, tokensRequired, clock, clock + d),
              TBDecision(solo.store, c, tokensRequired, clock, clock + d))
    /\ UNCHANGED <<config, clients, lbBuckets, requestLogs, admitted, sinceNew>>

TBCheck(c, tokensRequired) == TBCall(c, tokensRequired) /\ UNCHANGED <<run, returned, unswept, sweeper, retry, request>>

\* the same call, counted in run
TBCounted(c, tokensRequired) ==
    /\ MoreCalls
    /\ UNCHANGED <<returned, unswept, sweeper, retry, request>>
    /\ TBCall(c, tokensRequired)
    /\ run' = IF c = Observed
              THEN Count(Outcome, Outcome.avail, tbBuckets'[c].tokens)
              ELSE run

\* (mutation) the bucket got or created as check does
TBRefillInCreate(store, c, now) ==
    [store EXCEPT ![c] = refillBucket(TBGetOrCreate(store, c, now), now)]
\* getBucketState(clientId): null for an unknown client, else the bucket is
\* refilled in place and reported
TBRefillIn(store, c, now) ==
    [store EXCEPT ![c] = IF Has(store, c) THEN refillBucket(@, now) ELSE @]
\* getBucketState(clientId): what it returns
TBBucketState(store, c, now) ==
    IF ~Has(store, c) THEN Null
    ELSE [tokens |-> refillBucket(store[c], now).tokens,
          capacity |-> capacity,
          lastRefill |-> ToISOString(now)]
\* getBucketState(clientId): what it does to the limiter
TBReadBucket(c) ==
    /\ algorithm = "TokenBucket"
    /\ Quiet
    /\ tbBuckets' = TBRefillIn(tbBuckets, c, clock)
    /\ solo' = SoloStore(TBRefillIn(solo.store, c, clock))
    /\ UNCHANGED <<config, run, clock, clients, lbBuckets, requestLogs, pending,
                   admitted, sinceNew>>

TBGetBucketState(c) == TBReadBucket(c) /\ UNCHANGED <<returned, unswept, sweeper, retry, request>>

\* the same call, what it returns kept in returned
TBGetBucketStateSeen(c) ==
    /\ TBReadBucket(c)
    /\ UNCHANGED <<unswept, sweeper, retry, request>>
    /\ returned' = [client |-> c, value |-> TBBucketState(tbBuckets, c, clock)]

\* cleanup(): buckets idle for more than ten minutes go
TBIdle(bucket, now) == now - bucket.lastRefill > TBMaxIdleTime
TBSweep(store, now) ==
    [c \in Clients |->
        IF Has(store, c) /\ TBIdle(store[c], now) THEN Absent ELSE store[c]]
TBCleanup ==
    /\ algorithm = "TokenBucket"
    /\ Quiet
    /\ tbBuckets' = TBSweep(tbBuckets, clock)
    /\ solo' = SoloStore(TBSweep(solo.store, clock))
    /\ UNCHANGED <<config, run, returned, unswept, sweeper, retry, request, clock, clients, lbBuckets, requestLogs, pending,
                   admitted, sinceNew>>

\* getStats(): reads this.buckets.size and the configuration
TBGetStats ==
    /\ algorithm = "TokenBucket"
    /\ Quiet
    /\ Size(tbBuckets) >= 0
    /\ UNCHANGED vars

(***************************************************************************)
(* LeakyBucketRateLimiter (sizes in thousandths)                           *)
(***************************************************************************)
LBDefaultCapacity == 100
LBDefaultLeakRate == 10
LBMaxIdleTime == 600000

\* constructor(options)
LBConstructor(o) ==
    /\ capacity = OrDefault(o.capacity, LBDefaultCapacity)
    /\ leakRate = OrDefault(o.leakRate, LBDefaultLeakRate)
    /\ windowMs = 0 /\ maxRequests = 0 /\ refillRate = 0 /\ tokensPerRequest = 0

\* (mutation) the elapsed time counted in whole seconds
LBRequestsToLeakWholeSeconds(bucket, now) ==
    FloorDiv(now - bucket.lastLeak, Milli) * Milli * leakRate
\* leakFromBucket(bucket), Date.now() reading now
LBRequestsToLeak(bucket, now) == (now - bucket.lastLeak) * leakRate
\* (mutation) the leak not floored at 0
leakFromBucketUnfloored(bucket, now) ==
    [size |-> bucket.size - LBRequestsToLeak(bucket, now), lastLeak |-> now]
leakFromBucket(bucket, now) ==
    [size |-> Max(0, bucket.size - LBRequestsToLeak(bucket, now)),
     lastLeak |-> now]

\* check, lines 230-245: get or create the bucket (new buckets are empty)
LBGetOrCreate(store, c, now) ==
    IF Has(store, c) THEN store[c] ELSE [size |-> 0, lastLeak |-> now]

\* check, lines 251-252
LBSpaceAvailable(bucket) == capacity * Milli - bucket.size
LBAllowed(bucket, requestSize) ==
    GreaterEq(LBSpaceAvailable(bucket), requestSize)

\* (mutation) the request added to the bucket also when it is rejected
LBAddAlways(bucket, requestSize) ==
    [bucket EXCEPT !.size = @ + requestSize.v]

\* check, lines 254-256
LBAdd(bucket, requestSize) ==
    IF LBAllowed(bucket, requestSize)
    THEN [bucket EXCEPT !.size = @ + requestSize.v]
    ELSE bucket

\* check, lines 274-277: resetTime is a valid Date iff spaceNeeded is finite
LBThrows(bucket, requestSize) ==
    ~LBAllowed(bucket, requestSize) /\ ~DateIsValid(requestSize)

\* check, lines 274-298: the decision object; spaceAvailable was computed
\* before the request was added
LBResult(c, now, requestSize, before, after) ==
    LET spaceAvailable == LBSpaceAvailable(before)
        allowed == LBAllowed(before, requestSize)
        spaceNeeded == IF allowed THEN 0 ELSE requestSize.v - spaceAvailable
        resetTime == now + TruncDiv(spaceNeeded, leakRate)
        resetIn == CeilDiv(spaceNeeded, leakRate * Milli)
    IN  [threw |-> FALSE, client |-> c,
         cost |-> requestSize, now |-> after.lastLeak,
         avail |-> spaceAvailable,
         allowed |-> allowed,
         limit |-> capacity,
         remaining |-> FloorDiv(spaceAvailable, Milli),
         resetTime |-> ToISOString(resetTime),
         resetIn |-> resetIn,
         retryAfter |-> <<IF allowed THEN 0 ELSE resetIn>>,
         algorithm |-> "LeakyBucket",
         bucketSize |-> after.size]

\* check, lines 228-248: the leaked bucket the admission test reads; check
\* reads the clock (now), then leakFromBucket reads it again (later)
LBBefore(store, c, now, later) ==
    leakFromBucket(LBGetOrCreate(store, c, now), later)
\* the bucket a check leaves, and what it returns (or throws)
LBAfter(store, c, k, now, later) == LBAdd(LBBefore(store, c, now, later), k)
LBDecision(store, c, k, now, later) ==
    IF LBThrows(LBBefore(store, c, now, later), k) THEN Thrown(c, k, later)
    ELSE LBResult(c, now, k, LBBefore(store, c, now, later),
                  LBAfter(store, c, k, now, later))

\* async check(clientId, requestSize): what it does to the limiter
LBCall(c, requestSize) ==
    /\ algorithm = "LeakyBucket"
    /\ CanCall
    /\ \E d \in LaterReads :
        /\ clock' = clock + d
        /\ lbBuckets' = [lbBuckets EXCEPT ![c] =
              LBAfter(lbBuckets, c, requestSize, clock, clock + d)]
        /\ pending' = Settle(
              LBDecision(lbBuckets, c, requestSize, clock, clock + d))
        /\ solo' = SoloCheck(c,
              LBAfter(solo.store, c, requestSize, clock, clock + d),
              LBDecision(solo.store, c, requestSize, clock, clock + d))
    /\ UNCHANGED <<config, clients, tbBuckets, requestLogs, admitted, sinceNew>>

LBCheck(c, requestSize) == LBCall(c, requestSize) /\ UNCHANGED <<run, returned, unswept, sweeper, retry, request>>

\* the same call, counted in run: the level is the size of the bucket
LBCounted(c, requestSize) ==
    /\ MoreCalls
    /\ UNCHANGED <<returned, unswept, sweeper, retry, request>>
    /\ LBCall(c, requestSize)
    /\ run' = IF c = Observed
              THEN Count(Outcome, capacity * Milli - Outcome.avail,
                         lbBuckets'[c].size)
              ELSE run

\* every bucket leaked in place, Date.now() reading now (getStats and
\* forceLeakAll loop over the buckets doing this, and so does cleanup)
LBLeakAll(store, now) ==
    [c \in Clients |->
        IF Has(store, c) THEN leakFromBucket(store[c], now) ELSE Absent]

\* getBucketState(clientId): null for an unknown client, else the bucket is
\* leaked in place and reported
LBLeakIn(store, c, now) ==
    [store EXCEPT ![c] = IF Has(store, c) THEN leakFromBucket(@, now) ELSE @]
\* getBucketState(clientId): what it returns
LBBucketState(store, c, now) ==
    IF ~Has(store, c) THEN Null
    ELSE [size |-> leakFromBucket(store[c], now).size,
          capacity |-> capacity,
          spaceAvailable |-> LBSpaceAvailable(leakFromBucket(store[c], now)),
          leakRate |-> leakRate,
          lastLeak |-> ToISOString(now)]
\* getBucketState(clientId): what it does to the limiter
LBReadBucket(c) ==
    /\ algorithm = "LeakyBucket"
    /\ Quiet
    /\ lbBuckets' = LBLeakIn(lbBuckets, c, clock)
    /\ solo' = SoloStore(LBLeakIn(solo.store, c, clock))
    /\ UNCHANGED <<config, run, clock, clients, tbBuckets, requestLogs, pending,
                   admitted, sinceNew>>

LBGetBucketState(c) == LBReadBucket(c) /\ UNCHANGED <<returned, unswept, sweeper, retry, request>>

\* the same call, what it returns kept in returned
LBGetBucketStateSeen(c) ==
    /\ LBReadBucket(c)
    /\ UNCHANGED <<unswept, sweeper, retry, request>>
    /\ returned' = [client |-> c, value |-> LBBucketState(lbBuckets, c, clock)]

\* cleanup(): now is read first, then each bucket is leaked (which sets its
\* lastLeak to the time read then, later) and removed if empty and idle
LBIdle(bucket, now) == bucket.size = 0 /\ now - bucket.lastLeak > LBMaxIdleTime
LBSweep(store, now, later) ==
    [c \in Clients |->
        IF Has(store, c) /\ LBIdle(leakFromBucket(store[c], later), now)
        THEN Absent ELSE LBLeakAll(store, later)[c]]
LBCleanup ==
    /\ algorithm = "LeakyBucket"
    /\ Quiet
    /\ \E d \in LaterReads :
        /\ clock' = clock + d
        /\ lbBuckets' = LBSweep(lbBuckets, clock, clock + d)
        /\ solo' = SoloStore(LBSweep(solo.store, clock, clock + d))
    /\ UNCHANGED <<config, run, returned, unswept, sweeper, retry, request, clients, tbBuckets, requestLogs, pending, admitted,
                   sinceNew>>

\* getStats(): leaks every bucket before summing the sizes
LBGetStats ==
    /\ algorithm = "LeakyBucket"
    /\ Quiet
    /\ lbBuckets' = LBLeakAll(lbBuckets, clock)
    /\ solo' = SoloStore(LBLeakAll(solo.store, clock))
    /\ UNCHANGED <<config, run, returned, unswept, sweeper, retry, request, clock, clients, tbBuckets, requestLogs, pending,
                   admitted, sinceNew>>

\* forceLeakAll()
LBForceLeakAll ==
    /\ algorithm = "LeakyBucket"
    /\ Quiet
    /\ lbBuckets' = LBLeakAll(lbBuckets, clock)
    /\ solo' = SoloStore(LBLeakAll(solo.store, clock))
    /\ UNCHANGED <<config, run, returned, unswept, sweeper, retry, request, clock, clients, tbBuckets, requestLogs, pending,
                   admitted, sinceNew>>

(***************************************************************************)
(* The environment: the clock and the callers.                             *)
(***************************************************************************)
\* time passes between two tasks of the event loop: the continuations of the
\* settled promises (microtasks) have run by then
Tick ==
    /\ Quiet
    /\ \E d \in TickSteps :
          CanAdvance(d) /\ clock' = clock + d /\ AdvanceHistory(clock + d)
    /\ UNCHANGED <<config, run, returned, unswept, sweeper, retry, request, stores, pending, solo>>

Idle ==
    /\ Quiet
    /\ clock < IdleMs
    /\ clock' = clock + IdleMs
    /\ AdvanceHistory(clock + IdleMs)
    /\ UNCHANGED <<config, run, returned, unswept, sweeper, retry, request, stores, pending, solo>>

\* the continuation of the oldest settled promise runs
Deliver ==
    /\ ~Quiet
    /\ pending' = Tail(pending)
    /\ solo' = [solo EXCEPT !.out = Tail(@)]
    /\ UNCHANGED <<config, run, returned, unswept, sweeper, retry, request, clock, stores, admitted, sinceNew>>

(***************************************************************************)
(* Construction.                                                           *)
(***************************************************************************)
\* the options of a configuration with positive finite values
Limits == {Num(n) : n \in 1..MaxLimit}
Windows == {Num(1000)}
Rates == {Num(1)}
ValidOptions(a) ==
    CASE a \in {"FixedWindow", "SlidingWindowLog"} ->
           [windowMs : Windows, maxRequests : Limits]
      [] a = "TokenBucket" ->
           [capacity : Limits, refillRate : Rates, tokensPerRequest : {Num(1)}]
      [] a = "LeakyBucket" ->
           [capacity : Limits, leakRate : Rates]

(***************************************************************************)
(* The sweeper: the interval timer the constructor starts.  interval is    *)
(* the state of the Timeout object held in this.cleanupInterval, process   *)
(* the Node process the timer lives in; runs counts the runs of the timer  *)
(* callback, stops the calls of stop(), failed tells a run threw.          *)
(***************************************************************************)
MaxRuns == 2
MaxStops == 2

NoSweeper ==
    [interval |-> "none", process |-> "running", runs |-> 0, stops |-> 0,
     failed |-> FALSE]

setInterval(s) == [s EXCEPT !.interval = "active"]

\* (mutation) the timer only unref'd: it no longer keeps the process alive
\* but stays scheduled
unrefInterval(s) == s

clearInterval(s) == [s EXCEPT !.interval = "cleared"]

\* startCleanup(), called by each constructor
startCleanup == setInterval(NoSweeper)

Running == sweeper.process = "running"

\* the costs (tokensRequired, requestSize) of valid calls, in thousandths
ValidCosts == {Num(0), Num(Milli)}

Construct(a, o) ==
    /\ algorithm = a
    /\ options = o
    /\ \/ a = "FixedWindow" /\ FWConstructor(o)
       \/ a = "SlidingWindowLog" /\ SWConstructor(o)
       \/ a = "TokenBucket" /\ TBConstructor(o)
       \/ a = "LeakyBucket" /\ LBConstructor(o)
    /\ clients = EmptyStore
    /\ tbBuckets = EmptyStore
    /\ lbBuckets = EmptyStore
    /\ requestLogs = EmptyStore
    /\ pending = <<>>
    /\ admitted = [c \in Clients |-> <<>>]
    /\ sinceNew = [c \in Clients |-> 0]
    /\ solo = [store |-> EmptyStore, out |-> <<>>]
    /\ run = NoRun
    /\ returned = NoReturn
    /\ unswept = EmptyStore
    /\ sweeper = startCleanup
    /\ retry = NoRetry
    /\ request = NoRequest

Init ==
    /\ clock \in StartClocks
    /\ \E a \in Algorithms : \E o \in ValidOptions(a) : Construct(a, o)

Next ==
    \/ \E c \in Clients : FWCheck(c)
    \/ FWCleanup
    \/ FWGetStats
    \/ \E c \in Clients : SWCheck(c)
    \/ \E c \in Clients : SWGetLogState(c)
    \/ SWCleanup
    \/ SWGetStats
    \/ \E c \in Clients, k \in ValidCosts : TBCheck(c, k)
    \/ \E c \in Clients : TBGetBucketState(c)
    \/ TBCleanup
    \/ TBGetStats
    \/ \E c \in Clients, k \in ValidCosts : LBCheck(c, k)
    \/ \E c \in Clients : LBGetBucketState(c)
    \/ LBCleanup
    \/ LBGetStats
    \/ LBForceLeakAll
    \/ Tick
    \/ Idle
    \/ Deliver

Spec == Init /\ [][Next]_vars

(***************************************************************************)
(* Callers that pass a cost check does not expect.                         *)
(***************************************************************************)
\* check(clientId, -1), check(clientId, NaN), check(clientId, Infinity)
InvalidCosts == {Num(0 - Milli), NaN, Infinity}

NextCost ==
    \/ Next
    \/ \E c \in Clients, k \in InvalidCosts : TBCheck(c, k)
    \/ \E c \in Clients, k \in InvalidCosts : LBCheck(c, k)

SpecCost == Init /\ [][NextCost]_vars

(***************************************************************************)
(* A clock that is set back (Date.now() is the wall clock).                *)
(***************************************************************************)
ClockBack ==
    /\ Quiet
    /\ \E d \in TickSteps :
          /\ SmallElapsed >= d
          /\ clock' = clock - d
          /\ AdvanceHistory(clock - d)
    /\ UNCHANGED <<config, run, returned, unswept, sweeper, retry, request, stores, pending, solo>>

NextClock == Next \/ ClockBack

SpecClock == Init /\ [][NextClock]_vars

(***************************************************************************)
(* Construction with any options.                                          *)
(***************************************************************************)
\* what a caller may pass for a limit, a window or a rate
AnyLimits == {Undefined, Num(0), Num(0 - 1), Num(1)}
AnyWindows == {Undefined, Num(0), Num(0 - 1000), Num(1000)}
AnyRates == {Undefined, Num(0), Num(0 - 1), Num(1)}
AnyOptions(a) ==
    CASE a \in {"FixedWindow", "SlidingWindowLog"} ->
           [windowMs : AnyWindows, maxRequests : AnyLimits]
      [] a = "TokenBucket" ->
           [capacity : AnyLimits, refillRate : AnyRates,
            tokensPerRequest : {Num(1)}]
      [] a = "LeakyBucket" ->
           [capacity : AnyLimits, leakRate : AnyRates]

InitCtor ==
    /\ clock \in StartClocks
    /\ \E a \in Algorithms : \E o \in AnyOptions(a) : Construct(a, o)

\* the calls of one client at the instant of construction, each with the
\* default cost (tokensPerRequest, requestSize = 1)
NextCtor ==
    \/ FWCheck(Observed)
    \/ SWCheck(Observed)
    \/ TBCheck(Observed, Num(tokensPerRequest * Milli))
    \/ LBCheck(Observed, Num(Milli))
    \/ Deliver

SpecCtor == InitCtor /\ [][NextCtor]_vars

(***************************************************************************)
(* Properties.                                                             *)
(***************************************************************************)
\* the newest waiting decision for client c, if any
LastFor(i) ==
    /\ Returned(i)
    /\ \A j \in DOMAIN pending : pending[j].client = pending[i].client => j <= i

\* C1: Fixed Window: the k-th check of a client since its record was created,
\* all in one window, is allowed with remaining maxRequests - k for
\* k <= maxRequests, and the (maxRequests+1)-th is denied with remaining 0.
C1_CapacityBound ==
    algorithm = "FixedWindow" =>
        \A i \in DOMAIN pending :
            LET r == pending[i]
                k == sinceNew[r.client]
            IN  (LastFor(i) /\ k > 0) =>
                  /\ k <= maxRequests =>
                        r.allowed /\ r.remaining = maxRequests - k
                  /\ k = maxRequests + 1 => ~r.allowed /\ r.remaining = 0

\* the (maxRequests+1)-th check in the window of the first has been denied
C1_Witness ==
    /\ algorithm = "FixedWindow"
    /\ maxRequests = MaxLimit
    /\ \E i \in DOMAIN pending :
          /\ LastFor(i)
          /\ sinceNew[pending[i].client] = maxRequests + 1
          /\ ~pending[i].allowed

\* C2: Sliding-Window Log: the allowed checks of a client with a time in
\* the trailing window (clock - windowMs, clock] are never more than
\* maxRequests.  (Allowed checks happen at clock readings, so a window
\* ending at any other instant holds a subset of one of these.)
C2_NoBoundaryOvershoot ==
    algorithm = "SlidingWindowLog" =>
        \A c \in Clients : Len(admitted[c]) <= maxRequests

\* a full trailing window that straddles an edge of the fixed grid, and a
\* check denied in it
C2_Witness ==
    /\ algorithm = "SlidingWindowLog"
    /\ \E i \in DOMAIN pending :
          LET a == admitted[pending[i].client]
          IN  /\ Returned(i) /\ ~pending[i].allowed
              /\ Len(a) = maxRequests
              /\ FloorDiv(a[1], windowMs) # FloorDiv(a[Len(a)], windowMs)

\* C3: Fixed Window: the allowed checks of a client within a span shorter
\* than windowMs are never more than 2 x maxRequests, and (witness) exactly
\* 2 x maxRequests is reached.
C3_BoundaryOvershoot ==
    algorithm = "FixedWindow" =>
        \A c \in Clients : Len(admitted[c]) <= 2 * maxRequests

\* 2 x maxRequests checks allowed within less than windowMs
C3_Witness ==
    /\ algorithm = "FixedWindow"
    /\ \E c \in Clients :
          LET a == admitted[c]
          IN  /\ Len(a) = 2 * maxRequests
              /\ a[Len(a)] - a[1] < windowMs
              /\ FloorDiv(a[1], windowMs) # FloorDiv(a[Len(a)], windowMs)

\* C4: Token Bucket: every stored bucket has 0 <= tokens <= capacity.
C4_TokenBounds ==
    algorithm = "TokenBucket" =>
        \A c \in Clients :
            Has(tbBuckets, c) =>
                /\ tbBuckets[c].tokens >= 0
                /\ tbBuckets[c].tokens <= capacity * Milli

\* one bucket drained to 0 by an allowed check, another one refilled up to
\* capacity after having been drawn from
C4_Witness ==
    /\ algorithm = "TokenBucket"
    /\ \E a, b \in Clients :
          /\ Has(tbBuckets, a) /\ tbBuckets[a].tokens = 0
          /\ Has(tbBuckets, b) /\ tbBuckets[b].tokens = capacity * Milli
          /\ tbBuckets[b].lastRefill - tbBuckets[a].lastRefill
                > capacity * Milli

\* C5: Leaky Bucket: every stored bucket has 0 <= size <= capacity.
C5_SizeBounds ==
    algorithm = "LeakyBucket" =>
        \A c \in Clients :
            Has(lbBuckets, c) =>
                /\ lbBuckets[c].size >= 0
                /\ lbBuckets[c].size <= capacity * Milli

\* one bucket filled to capacity, another one leaked down to 0 over a
\* longer time than its content needed
C5_Witness ==
    /\ algorithm = "LeakyBucket"
    /\ \E a, b \in Clients :
          /\ Has(lbBuckets, a) /\ lbBuckets[a].size = capacity * Milli
          /\ Has(lbBuckets, b) /\ lbBuckets[b].size = 0
          /\ \E i \in DOMAIN pending :
                /\ Returned(i) /\ pending[i].client = b
                /\ pending[i].avail < capacity * Milli

\* the Map of the limiter's class
Store ==
    CASE algorithm = "FixedWindow" -> clients
      [] algorithm = "SlidingWindowLog" -> requestLogs
      [] algorithm = "TokenBucket" -> tbBuckets
      [] algorithm = "LeakyBucket" -> lbBuckets

\* what a returned decision took from the client's allowance
Spent(r) == IF r.allowed THEN r.cost.v ELSE 0
\* waiting decisions i before j of one client, made at the same clock reading
\* with no call for that client between them
Together(i, j) ==
    /\ i < j /\ Returned(i) /\ Returned(j)
    /\ pending[i].client = pending[j].client
    /\ pending[i].now = pending[j].now
    /\ \A k \in DOMAIN pending :
          (i < k /\ k < j) => pending[k].client # pending[i].client

\* C6: every engine: check calls for one client issued together, before any
\* of them is awaited, take effect one after another: each sees what the
\* one before it left, so that the allowance one of them has taken is not
\* given to the next; when one unit is left and both ask for one, at most
\* one is allowed.
C6_Serialized ==
    \A i, j \in DOMAIN pending :
        Together(i, j) =>
            /\ pending[j].avail = pending[i].avail - Spent(pending[i])
            /\ (/\ pending[i].avail = pending[i].cost.v
                /\ pending[j].cost.v = pending[i].cost.v
                /\ pending[i].cost.v > 0)
                  => ~(pending[i].allowed /\ pending[j].allowed)

\* two calls issued together against one unit left: the first allowed, the
\* second denied
C6_Witness ==
    \E i, j \in DOMAIN pending :
        /\ Together(i, j)
        /\ pending[i].cost.v > 0
        /\ pending[i].avail = pending[i].cost.v
        /\ pending[j].cost = pending[i].cost
        /\ pending[i].allowed /\ ~pending[j].allowed

\* C7: every engine: the record stored for client A and the decisions
\* returned to it are those of the run in which the checks of the other
\* clients are left out and A's calls happen at the same times.
C7_KeyIndependence ==
    /\ solo.store[Observed] = Store[Observed]
    /\ \A i \in DOMAIN pending :
          pending[i].client = Observed => solo.out[i] = pending[i]

\* another client has been served, and after it A is denied, exactly as in
\* the run in which the other client never called
C7_Witness ==
    /\ \E b \in Clients : Has(Store, b) /\ ~Has(solo.store, b)
    /\ \E i, j \in DOMAIN pending :
          /\ j < i
          /\ Returned(i) /\ pending[i].client = Observed /\ ~pending[i].allowed
          /\ Returned(j) /\ pending[j].client # Observed /\ pending[j].allowed

\* the record of client c after the call is the one the refill / leak step
\* alone gives (a new client's record is the fresh one)
OnlyElapsed(c) ==
    CASE algorithm = "TokenBucket" ->
           tbBuckets'[c] = TBBefore(tbBuckets, c, clock, clock')
      [] algorithm = "LeakyBucket" ->
           lbBuckets'[c] = LBBefore(lbBuckets, c, clock, clock')
      [] OTHER -> TRUE

\* C8: Token Bucket and Leaky Bucket: a check with a negative, NaN or
\* Infinity cost ends in an error, not in a decision, and leaves the
\* client's tokens / size as they were.
C8_InvalidCostRejected ==
    [][(Called /\ Outcome.cost \in InvalidCosts) =>
          (Outcome.threw /\ OnlyElapsed(Outcome.client))]_vars

\* C9: when a call reads a time earlier than the lastRefill / lastLeak it
\* finds stored, the refill step does not reduce the tokens and the leak
\* step does not increase the size (elapsed time counts as zero).
C9_ElapsedClamped ==
    [][\A c \in Clients :
          /\ (/\ Has(tbBuckets, c) /\ Has(tbBuckets', c)
              /\ tbBuckets'[c].lastRefill < tbBuckets[c].lastRefill)
                => refillBucket(tbBuckets[c], tbBuckets'[c].lastRefill).tokens
                      >= tbBuckets[c].tokens
          /\ (/\ Has(lbBuckets, c) /\ Has(lbBuckets', c)
              /\ lbBuckets'[c].lastLeak < lbBuckets[c].lastLeak)
                => leakFromBucket(lbBuckets[c], lbBuckets'[c].lastLeak).size
                      <= lbBuckets[c].size]_vars

\* an option given as a number that is not positive
NonPositive(x) == x.k = "num" /\ x.v <= 0

\* C10: a limiter constructed with a non-positive capacity, maxRequests,
\* refillRate, leakRate or windowMs never gets to serve a call: no call is
\* made on an instance whose options had a non-positive value.
C10_FailFast ==
    ~Quiet => \A f \in DOMAIN options : ~NonPositive(options[f])

\* C11: getBucketState (Token Bucket, Leaky Bucket) and getLogState
\* (Sliding-Window Log) leave every stored record and the set of stored keys
\* as they were.
C11_InspectionReadOnly ==
    [][\A c \in Clients :
          (TBGetBucketState(c) \/ LBGetBucketState(c) \/ SWGetLogState(c))
              => UNCHANGED stores]_vars

(***************************************************************************)
(* reset()                                                                 *)
(***************************************************************************)
\* (mutation) reset() that deletes one key only
resetOne(store) == [store EXCEPT ![Observed] = Absent]

\* reset(): this.clients.clear() / this.buckets.clear() /
\* this.requestLogs.clear()
reset(store) == EmptyStore

\* the histories start again with the limiter
StartHistory ==
    /\ admitted' = [c \in Clients |-> <<>>]
    /\ sinceNew' = [c \in Clients |-> 0]

FWReset ==
    /\ algorithm = "FixedWindow"
    /\ clients' = reset(clients)
    /\ solo' = SoloStore(reset(solo.store))
    /\ StartHistory
    /\ UNCHANGED <<config, run, returned, unswept, sweeper, retry, request, clock, tbBuckets, lbBuckets, requestLogs, pending>>

SWReset ==
    /\ algorithm = "SlidingWindowLog"
    /\ requestLogs' = reset(requestLogs)
    /\ solo' = SoloStore(reset(solo.store))
    /\ StartHistory
    /\ UNCHANGED <<config, run, returned, unswept, sweeper, retry, request, clock, clients, tbBuckets, lbBuckets, pending>>

TBReset ==
    /\ algorithm = "TokenBucket"
    /\ tbBuckets' = reset(tbBuckets)
    /\ solo' = SoloStore(reset(solo.store))
    /\ StartHistory
    /\ UNCHANGED <<config, run, returned, unswept, sweeper, retry, request, clock, clients, lbBuckets, requestLogs, pending>>

LBReset ==
    /\ algorithm = "LeakyBucket"
    /\ lbBuckets' = reset(lbBuckets)
    /\ solo' = SoloStore(reset(solo.store))
    /\ StartHistory
    /\ UNCHANGED <<config, run, returned, unswept, sweeper, retry, request, clock, clients, tbBuckets, requestLogs, pending>>

\* the calls and reset(), with time passing
NextReset ==
    \/ \E c \in Clients : FWCheck(c)
    \/ \E c \in Clients : SWCheck(c)
    \/ \E c \in Clients, k \in ValidCosts : TBCheck(c, k)
    \/ \E c \in Clients, k \in ValidCosts : LBCheck(c, k)
    \/ FWReset
    \/ SWReset
    \/ TBReset
    \/ LBReset
    \/ Tick
    \/ Deliver

SpecReset == Init /\ [][NextReset]_vars

\* the decision check returns to client c, asking for cost k, when the
\* limiter's Map is store
Decision(store, c, k, now, later) ==
    CASE algorithm = "FixedWindow" -> FWDecision(store, c, later)
      [] algorithm = "SlidingWindowLog" -> SWDecision(store, c, later)
      [] algorithm = "TokenBucket" -> TBDecision(store, c, k, now, later)
      [] algorithm = "LeakyBucket" -> LBDecision(store, c, k, now, later)

\* C12: every engine: reset() leaves no client stored (getStats then counts
\* 0 active clients / buckets / logs), and a check for a client of which
\* nothing is stored, as after reset(), returns what the first check of a
\* limiter that has never served anyone returns at that instant.
C12_ResetIsFresh ==
    [][/\ (FWReset \/ SWReset \/ TBReset \/ LBReset) => Size(Store') = 0
       /\ (Called /\ ~Has(Store, Outcome.client)) =>
             Outcome = Decision(EmptyStore, Outcome.client, Outcome.cost,
                                clock, clock')]_vars

\* a check denied, reset() called before its caller resumed, and the same
\* check at the same instant allowed as for a client never seen
C12_Witness ==
    \E i, j \in DOMAIN pending :
        /\ i < j /\ Returned(i) /\ Returned(j)
        /\ pending[i].client = pending[j].client
        /\ pending[i].now = pending[j].now
        /\ pending[i].cost = pending[j].cost
        /\ ~pending[i].allowed /\ pending[j].allowed
        /\ Size(Store) = 1

(***************************************************************************)
(* Bursts: one client calling check with the default cost, the calls       *)
(* counted, on the configurations of the test suites and on the small ones.*)
(***************************************************************************)
\* tokenBucket.test.js and the Leaky Bucket tests, beforeEach
TBTestOptions ==
    [capacity |-> Num(10), refillRate |-> Num(5), tokensPerRequest |-> Num(1)]
LBTestOptions == [capacity |-> Num(10), leakRate |-> Num(5)]

BurstOptions(a) ==
    ValidOptions(a) \cup
        (IF a = "TokenBucket" THEN {TBTestOptions} ELSE {LBTestOptions})

InitBurst ==
    /\ clock \in StartClocks
    /\ \E a \in {"TokenBucket", "LeakyBucket"} :
          \E o \in BurstOptions(a) : Construct(a, o)

NextBurst ==
    \/ TBCounted(Observed, Num(tokensPerRequest * Milli))
    \/ LBCounted(Observed, Num(Milli))
    \/ TBGetBucketState(Observed)
    \/ LBGetBucketState(Observed)
    \/ Tick
    \/ Deliver

SpecBurst == InitBurst /\ [][NextBurst]_vars

\* C13: Token Bucket: a check made t ms after the call that left p tokens
\* reads min(capacity, p + t * refillRate) tokens before admission; with
\* capacity 10 and refillRate 5, of the unit-cost calls made at one instant
\* 1000 ms after a call that left the bucket empty, the first 5 are allowed
\* and no more.
C13_RefillLaw ==
    [][/\ (Called /\ algorithm = "TokenBucket" /\ run.at >= 0) =>
             Outcome.avail =
                Min(capacity * Milli,
                    run.left + (Outcome.now - run.at) * refillRate)
       /\ (/\ algorithm = "TokenBucket" /\ capacity = 10 /\ refillRate = 5
           /\ run'.p = 0 /\ run'.gap = 1000) =>
             run'.burstAllowed = Min(run'.burstCalls, 5)]_vars

\* the bucket of the tests drained by 11 calls at one instant, the 11th
\* denied, then 6 calls 1000 ms later, 5 of them allowed
C13_Witness ==
    /\ algorithm = "TokenBucket" /\ capacity = 10 /\ refillRate = 5
    /\ run.p = 0 /\ run.gap = 1000
    /\ run.calls = 17 /\ run.allowed = 15
    /\ run.burstCalls = 6 /\ run.burstAllowed = 5

\* C14: Token Bucket: the first check for a client of which nothing is stored
\* reads capacity tokens before admission, and of the unit-cost calls a
\* never-seen client makes at one instant the first capacity are allowed and
\* no more.
C14_FullAtFirstSight ==
    [][/\ (Called /\ algorithm = "TokenBucket"
              /\ ~Has(tbBuckets, Outcome.client)) =>
             Outcome.avail = capacity * Milli
       /\ (algorithm = "TokenBucket" /\ run'.calls > 0 /\ run'.gap < 0) =>
             run'.burstAllowed = Min(run'.burstCalls, capacity)]_vars

\* the first burst of a client on the test's limiter: 11 calls, 10 allowed
C14_Witness ==
    /\ algorithm = "TokenBucket" /\ capacity = 10
    /\ run.gap < 0 /\ run.seen = capacity * Milli
    /\ run.burstCalls = 11 /\ run.burstAllowed = 10
    /\ ~Quiet /\ ~pending[Len(pending)].allowed

\* the size a check of Observed reads once the bucket has leaked: 0 for a
\* never-seen client, else what the previous call left less the leak since
Leaked ==
    IF run.at < 0 THEN 0
    ELSE Max(0, run.left - (Outcome.now - run.at) * leakRate)

\* C15: Leaky Bucket: a never-seen client starts with size 0; a check leaks
\* first, is allowed iff capacity - size >= cost, and adds exactly cost to
\* size when allowed; of the unit-cost calls made at one instant on an empty
\* bucket the first capacity are admitted and no more, and size is then
\* capacity.
C15_LeakThenAdmit ==
    [][/\ (Called /\ algorithm = "LeakyBucket") =>
             /\ Outcome.avail = capacity * Milli - Leaked
             /\ Outcome.allowed <=>
                    capacity * Milli - Leaked >= Outcome.cost.v
             /\ lbBuckets'[Outcome.client].size =
                    Leaked + (IF Outcome.allowed THEN Outcome.cost.v ELSE 0)
       /\ (algorithm = "LeakyBucket" /\ run'.calls > 0 /\ run'.seen = 0) =>
             /\ run'.burstAllowed = Min(run'.burstCalls, capacity)
             /\ run'.burstCalls >= capacity => run'.left = capacity * Milli]_vars

\* the burst of the Leaky Bucket tests: 15 calls of a never-seen client at
\* one instant, 10 admitted, 5 rejected, the bucket left full
C15_Witness ==
    /\ algorithm = "LeakyBucket" /\ capacity = 10
    /\ run.gap < 0 /\ run.seen = 0
    /\ run.burstCalls = 15 /\ run.burstAllowed = 10
    /\ run.left = capacity * Milli

LBDocOptions == [capacity |-> Num(100), leakRate |-> Num(10)]
RestMs == 10000

\* 10 seconds pass between two tasks of the event loop
Rest ==
    /\ Quiet
    /\ clock < RestMs
    /\ clock' = clock + RestMs
    /\ UNCHANGED <<config, stores, pending, history, sweeper, retry, request>>

InitDoc ==
    /\ clock \in StartClocks
    /\ Construct("LeakyBucket", LBDocOptions)

\* one request of the client before the 10 seconds, any number after
DocCheck ==
    /\ clock < RestMs => run.calls = 0
    /\ LBCounted(Observed, Num(Milli))

NextDoc ==
    \/ DocCheck
    \/ Rest
    \/ Deliver

SpecDoc == InitDoc /\ [][NextDoc]_vars

\* C17 as stated: Leaky Bucket, capacity 100 and leakRate 10: of a burst of
\* 100 requests sent by a client that has been idle for 10 seconds, 10 are
\* allowed and 90 rejected.
C17_NoBurstAfterIdle ==
    (/\ algorithm = "LeakyBucket" /\ capacity = 100 /\ leakRate = 10
     /\ run.gap >= RestMs /\ run.burstCalls = 100) => run.burstAllowed = 10

(***************************************************************************)
(* The Sliding-Window Log of one client, its calls counted, on the         *)
(* configuration of slidingWindowLog.test.js and on the small ones.        *)
(***************************************************************************)
SWTestOptions == [windowMs |-> Num(1000), maxRequests |-> Num(5)]

InitLog ==
    /\ clock \in StartClocks
    /\ \E o \in ValidOptions("SlidingWindowLog") \cup {SWTestOptions} :
          Construct("SlidingWindowLog", o)

NextLog ==
    \/ SWCounted(Observed)
    \/ SWGetLogState(Observed)
    \/ SWCleanup
    \/ Tick
    \/ Deliver

SpecLog == InitLog /\ [][NextLog]_vars

\* the entries of a stored log that have not aged out at time now
StillInWindow(log, now) ==
    Cardinality({i \in DOMAIN log : now < log[i] + windowMs})

\* C18: Sliding-Window Log: a check that finds maxRequests timestamps in the
\* client's log is denied while now < oldest + windowMs and allowed from
\* now = oldest + windowMs on, the entries leaving one by one (remaining =
\* maxRequests - 1 - those still in the window, so maxRequests - 1 once all
\* have aged out).
C18_SlidesOut ==
    [][(/\ Called /\ algorithm = "SlidingWindowLog"
        /\ Has(requestLogs, Outcome.client)
        /\ Len(requestLogs[Outcome.client].log) = maxRequests) =>
          LET log == requestLogs[Outcome.client].log
              now == Outcome.now
          IN  /\ now < log[1] + windowMs => ~Outcome.allowed
              /\ now >= log[1] + windowMs =>
                    /\ Outcome.allowed
                    /\ Outcome.remaining =
                          maxRequests - 1 - StillInWindow(log, now)
              /\ now >= log[Len(log)] + windowMs =>
                    Outcome.remaining = maxRequests - 1]_vars

\* the log of the tests filled by 5 calls at one instant, a 6th denied, and
\* the next call, 1000 ms later, allowed with remaining = 4
C18_Witness ==
    /\ algorithm = "SlidingWindowLog" /\ maxRequests = 5
    /\ run.p = maxRequests /\ run.gap = windowMs
    /\ run.calls = 7 /\ run.allowed = 6
    /\ ~Quiet /\ pending[Len(pending)].allowed
    /\ pending[Len(pending)].remaining = 4

(***************************************************************************)
(* The decision object.                                                    *)
(***************************************************************************)
\* C19: every decision check returns, whichever the engine and whatever the
\* calls before it, has remaining >= 0.
C19_RemainingNonNegative ==
    \A i \in DOMAIN pending : Returned(i) => pending[i].remaining >= 0

\* C20: every decision with allowed = true, from each of the four engines,
\* carries a retryAfter field equal to 0.
C20_RetryAfterZeroWhenAllowed ==
    \A i \in DOMAIN pending :
        (Returned(i) /\ pending[i].allowed) => pending[i].retryAfter = <<0>>

(***************************************************************************)
(* The life of a record: every operation of the four classes, reset()      *)
(* included.                                                               *)
(***************************************************************************)
NextLife ==
    \/ Next
    \/ FWReset
    \/ SWReset
    \/ TBReset
    \/ LBReset

SpecLife == Init /\ [][NextLife]_vars

\* a cleanup run or reset()
Evicts ==
    \/ FWCleanup \/ SWCleanup \/ TBCleanup \/ LBCleanup
    \/ FWReset \/ SWReset \/ TBReset \/ LBReset

\* C21: every engine: a check for a key of which nothing is stored does not
\* fail, the key of a check has a record when the check returns, no check
\* removes a record (also when it finds nothing remaining), and a record
\* disappears only in a cleanup run or in reset().
C21_RecordsOutliveChecks ==
    [][/\ Called =>
             /\ ~Has(Store, Outcome.client) => ~Outcome.threw
             /\ Has(Store', Outcome.client)
             /\ \A c \in Clients : Has(Store, c) => Has(Store', c)
       /\ (\E c \in Clients : Has(Store, c) /\ ~Has(Store', c)) => Evicts]_vars

\* a check found nothing remaining and was denied; its caller has not resumed
\* and the records of both clients are stored
C21_Witness ==
    /\ Size(Store) = Cardinality(Clients)
    /\ \E i \in DOMAIN pending :
          /\ Returned(i) /\ ~pending[i].allowed
          /\ pending[i].remaining = 0
          /\ Has(Store, pending[i].client)

(***************************************************************************)
(* Inspection: getBucketState / getLogState, what they return kept, with   *)
(* the checks, the cleanup runs and reset() of the three classes that have *)
(* them, for one client.                                                   *)
(***************************************************************************)
Inspected == {"SlidingWindowLog", "TokenBucket", "LeakyBucket"}

InitInspect ==
    /\ clock \in StartClocks
    /\ \E a \in Inspected : \E o \in ValidOptions(a) : Construct(a, o)

NextInspect ==
    \/ SWCheck(Observed)
    \/ TBCheck(Observed, Num(tokensPerRequest * Milli))
    \/ LBCheck(Observed, Num(Milli))
    \/ SWGetLogStateSeen(Observed)
    \/ TBGetBucketStateSeen(Observed)
    \/ LBGetBucketStateSeen(Observed)
    \/ SWCleanup
    \/ TBCleanup
    \/ LBCleanup
    \/ SWReset
    \/ TBReset
    \/ LBReset
    \/ Tick
    \/ Idle
    \/ Deliver

SpecInspect == InitInspect /\ [][NextInspect]_vars

\* an inspection call for client c
Inspects(c) ==
    SWGetLogStateSeen(c) \/ TBGetBucketStateSeen(c) \/ LBGetBucketStateSeen(c)

\* C22: getBucketState / getLogState for a key of which nothing is stored
\* returns null and stores nothing for it; a record appears for a key only in
\* a check call for that key.
C22_InspectionCreatesNothing ==
    [][\A c \in Clients :
          /\ (Inspects(c) /\ ~Has(Store, c)) =>
                (returned'.value = Null /\ ~Has(Store', c))
          /\ (~Has(Store, c) /\ Has(Store', c)) =>
                (Called /\ Outcome.client = c)]_vars

\* an inspection has returned null, after the pause that makes records
\* stale, for a client of which nothing is stored
C22_Witness ==
    /\ returned # NoReturn
    /\ returned.value = Null
    /\ returned.client = Observed
    /\ ~Has(Store, Observed)
    /\ clock >= IdleMs

(***************************************************************************)
(* The sweeper: cleanup runs between the check calls of one client, and in *)
(* unswept the Map the same calls leave when no cleanup runs.              *)
(***************************************************************************)
\* a valid configuration whose bucket takes longer than maxIdleTime to fill,
\* each request taking a full bucket
TBSlowOptions ==
    [capacity |-> Num(1000), refillRate |-> Num(1),
     tokensPerRequest |-> Num(1000)]

SweepOptions(a) ==
    ValidOptions(a) \cup (IF a = "TokenBucket" THEN {TBSlowOptions} ELSE {})

\* the record a check of client c leaves in the Map store
After(store, c, k, now, later) ==
    CASE algorithm = "FixedWindow" -> FWAfter(store, c, later)
      [] algorithm = "SlidingWindowLog" -> [log |-> SWAfter(store, c, later)]
      [] algorithm = "TokenBucket" -> TBAfter(store, c, k, now, later)
      [] algorithm = "LeakyBucket" -> LBAfter(store, c, k, now, later)

\* the call made in the run without cleanup too
Unswept(c, k) ==
    /\ unswept' = [unswept EXCEPT ![c] = After(unswept, c, k, clock, clock')]
    /\ UNCHANGED <<run, returned, sweeper, retry, request>>

\* check(clientId), the cost left to its default
FWSwept(c) == FWCall(c) /\ Unswept(c, Num(1))
SWSwept(c) == SWCall(c) /\ Unswept(c, Num(1))
TBSwept(c) ==
    /\ TBCall(c, Num(tokensPerRequest * Milli))
    /\ Unswept(c, Num(tokensPerRequest * Milli))
LBSwept(c) == LBCall(c, Num(Milli)) /\ Unswept(c, Num(Milli))

InitSweep ==
    /\ clock \in StartClocks
    /\ \E a \in Algorithms : \E o \in SweepOptions(a) : Construct(a, o)

NextSweep ==
    \/ FWSwept(Observed)
    \/ SWSwept(Observed)
    \/ TBSwept(Observed)
    \/ LBSwept(Observed)
    \/ FWCleanup
    \/ SWCleanup
    \/ TBCleanup
    \/ LBCleanup
    \/ Tick
    \/ Idle
    \/ Deliver

SpecSweep == InitSweep /\ [][NextSweep]_vars

\* C23: every engine, every valid configuration: a check returns the allowed
\* flag and the remaining value it returns in the run of the same calls at
\* the same times in which no cleanup runs.
C23_SweepChangesNoDecision ==
    [][Called =>
          LET unsweptOutcome ==
                  Decision(unswept, Outcome.client, Outcome.cost, clock, clock')
          IN  /\ Outcome.threw = unsweptOutcome.threw
              /\ ~Outcome.threw =>
                    /\ Outcome.allowed = unsweptOutcome.allowed
                    /\ Outcome.remaining = unsweptOutcome.remaining]_vars

(***************************************************************************)
(* The sweeper removes the records that are due.                           *)
(***************************************************************************)
\* the record of client c has met its engine's removal condition at the
\* time now: its window is more than two windows old, its bucket was last
\* used more than ten minutes ago (and, Leaky Bucket, has leaked empty), its
\* compacted log is empty
Due(c, now) ==
    /\ Has(Store, c)
    /\ CASE algorithm = "FixedWindow" -> FWExpired(clients[c], now)
         [] algorithm = "SlidingWindowLog" ->
               Len(cleanLog(requestLogs[c].log, now)) = 0
         [] algorithm = "TokenBucket" -> TBIdle(tbBuckets[c], now)
         [] algorithm = "LeakyBucket" ->
               /\ leakFromBucket(lbBuckets[c], now).size = 0
               /\ now - lbBuckets[c].lastLeak > LBMaxIdleTime

\* one run of the sweeper's cleanup()
Sweeps == FWCleanup \/ SWCleanup \/ TBCleanup \/ LBCleanup

\* C24: while the sweeper runs, every record that gets no further check is
\* eventually removed: a run of cleanup() leaves no record that had met its
\* removal condition when the run started, so a record that is due is gone
\* after the sweeper's next run and the store cannot keep growing
C24_SweepRemovesDue ==
    [][Sweeps => \A c \in Clients : Due(c, clock) => ~Has(Store', c)]_vars

(***************************************************************************)
(* The sweeper's schedule: the timer callback () => { this.cleanup() },    *)
(* stop(), and a cleanup run that throws.  The callback has no try/catch:  *)
(* what cleanup throws leaves the callback uncaught, and the process exits *)
(* unless the embedding application listens for 'uncaughtException', in    *)
(* which case Node re-arms the interval.                                   *)
(***************************************************************************)
Uncaught == {"exited", "running"}

\* the Map one run of cleanup() leaves
Cleanup(store) ==
    CASE algorithm = "FixedWindow" -> FWSweep(store, clock)
      [] algorithm = "SlidingWindowLog" -> SWSweep(store, clock)
      [] algorithm = "TokenBucket" -> TBSweep(store, clock)
      [] algorithm = "LeakyBucket" -> LBSweep(store, clock, clock)

\* the run gets to a logger.debug call: after the loop when something was
\* removed (or, Sliding-Window Log, scanned), in leakFromBucket for the first
\* bucket of the Leaky Bucket loop
Logs ==
    CASE algorithm \in {"FixedWindow", "TokenBucket"} ->
              Size(Cleanup(Store)) < Size(Store)
      [] algorithm \in {"SlidingWindowLog", "LeakyBucket"} -> Size(Store) > 0

\* the Map a run leaves whose logger.debug call throws
CleanupThrows(store) ==
    IF algorithm = "LeakyBucket" THEN LBLeakAll(store, clock)
    ELSE Cleanup(store)

\* the Map a run of cleanup() leaves, completed or thrown out of
Ran(store, threw) == IF threw THEN CleanupThrows(store) ELSE Cleanup(store)

\* the timer fires and the callback runs cleanup()
TimerRun(threw, s) ==
    /\ Quiet
    /\ Running
    /\ sweeper.interval = "active"
    /\ clients' = IF algorithm = "FixedWindow" THEN Ran(clients, threw) ELSE clients
    /\ requestLogs' =
          IF algorithm = "SlidingWindowLog" THEN Ran(requestLogs, threw)
          ELSE requestLogs
    /\ tbBuckets' = IF algorithm = "TokenBucket" THEN Ran(tbBuckets, threw) ELSE tbBuckets
    /\ lbBuckets' = IF algorithm = "LeakyBucket" THEN Ran(lbBuckets, threw) ELSE lbBuckets
    /\ solo' = SoloStore(Ran(solo.store, threw))
    /\ sweeper' = [s EXCEPT !.runs = @ + 1]
    /\ UNCHANGED <<config, clock, pending, admitted, sinceNew, run, returned,
                   unswept, retry, request>>

Fire ==
    /\ sweeper.runs < MaxRuns
    /\ TimerRun(FALSE, [sweeper EXCEPT !.failed = FALSE])

FireThrows ==
    /\ sweeper.runs < MaxRuns
    /\ Logs
    /\ \E p \in Uncaught :
          TimerRun(TRUE,
                   [sweeper EXCEPT !.failed = TRUE, !.process = p])

\* stop(): this.cleanupInterval holds the Timeout since the constructor
Stop ==
    /\ Running
    /\ sweeper.stops < MaxStops
    /\ sweeper' = [clearInterval(sweeper) EXCEPT !.stops = @ + 1]
    /\ UNCHANGED <<config, clock, stores, pending, history, retry, request>>

\* the calls and the clock of a live process
Serve(c) ==
    /\ Running
    /\ \/ FWCheck(c)
       \/ SWCheck(c)
       \/ TBCheck(c, Num(tokensPerRequest * Milli))
       \/ LBCheck(c, Num(Milli))

Pass == Running /\ (Tick \/ Idle)

Resume == Running /\ Deliver

NextTimer ==
    \/ Serve(Observed)
    \/ Fire
    \/ FireThrows
    \/ Stop
    \/ Pass
    \/ Resume

SpecTimer == Init /\ [][NextTimer]_vars

\* C25: stop() halts the sweeper: once a stop() has returned the timer
\* callback runs no more, and a further stop() changes nothing of the timer,
\* the limiter or its store
C25_StopHalts ==
    [][/\ sweeper.stops > 0 => sweeper'.runs = sweeper.runs
       /\ (sweeper.stops > 0 /\ sweeper'.stops > sweeper.stops) =>
             /\ sweeper' = [sweeper EXCEPT !.stops = @ + 1]
             /\ UNCHANGED <<config, clock, stores, pending>>]_vars

\* a second stop() has returned after the sweeper ran, and a record that the
\* next run would have removed is still stored
C25_Witness ==
    /\ sweeper.stops = 2
    /\ sweeper.runs > 0
    /\ Running
    /\ Due(Observed, clock)

\* C26: a cleanup run that throws does not end the schedule: unless stop()
\* was called the timer is still active in a live process, so the next tick
\* runs cleanup again
C26_ThrowKeepsSchedule ==
    (sweeper.failed /\ sweeper.stops = 0) =>
        (sweeper.interval = "active" /\ Running)

\* the admissions of client c in the fixed window the clock is in
InThisWindow(c) ==
    SelectSeq(admitted[c],
              LAMBDA t : getCurrentWindowStart(t) = getCurrentWindowStart(clock))
LastAdmitted(c) == admitted[c][Len(admitted[c])]

C28_WindowReset ==
    [][algorithm = "FixedWindow" =>
          \A c \in Clients :
              /\ Has(clients', c) => clients'[c].count \in 0..maxRequests
              /\ (Called /\ Outcome.client = c) =>
                    LET start == getCurrentWindowStart(Outcome.now)
                        one == IF Outcome.allowed THEN 1 ELSE 0
                    IN  IF Has(clients, c) /\ ~(clients[c].windowStart < start)
                        THEN /\ Outcome.allowed = (clients[c].count < maxRequests)
                             /\ clients'[c] = [clients[c] EXCEPT !.count = @ + one]
                        ELSE /\ Outcome.allowed
                             /\ clients'[c] = [count |-> 1, windowStart |-> start]
              /\ (~(Called /\ Outcome.client = c)
                    /\ Has(clients, c) /\ Has(clients', c)) =>
                    clients'[c] = clients[c]]_vars

\* a client admitted in an earlier window has been checked in the next one
\* and its count stands at 1
C28_Witness ==
    /\ algorithm = "FixedWindow"
    /\ maxRequests > 1
    /\ \E c \in Clients :
          /\ Has(clients, c)
          /\ clients[c].count = 1
          /\ clients[c].windowStart = getCurrentWindowStart(clock)
          /\ Len(admitted[c]) > maxRequests
          /\ getCurrentWindowStart(admitted[c][1]) < clients[c].windowStart

\* C29: cleanup() deletes only records whose windowStart is older than
\* now - 2 * windowMs, and every record it leaves in the Map it leaves as it
\* was, count and windowStart; it creates none
C29_SweepOnlyEvicts ==
    [][FWCleanup =>
          \A c \in Clients :
              /\ (Has(clients, c) /\ ~Has(clients', c)) =>
                    clients[c].windowStart < clock - 2 * windowMs
              /\ Has(clients', c) =>
                    (Has(clients, c) /\ clients'[c] = clients[c])]_vars

\* the sweep has removed the record the checks had left, more than two
\* windows after its window started
C29_Witness ==
    /\ algorithm = "FixedWindow"
    /\ ~Has(clients, Observed)
    /\ Has(unswept, Observed)
    /\ unswept[Observed].count > 0
    /\ unswept[Observed].windowStart < clock - 2 * windowMs

\* C30: the resetTime of every Fixed Window decision is the windowStart the
\* client's record holds after the call plus windowMs, and is later than the
\* time of the call
C30_ResetTimeIsWindowEnd ==
    [][(algorithm = "FixedWindow" /\ Called) =>
          /\ DateParse(Outcome.resetTime) =
                clients'[Outcome.client].windowStart + windowMs
          /\ DateParse(Outcome.resetTime) > Outcome.now]_vars

(***************************************************************************)
(* Token Bucket: what a check writes.                                      *)
(***************************************************************************)
\* the tokens of client c once the time up to later is credited, a client
\* never seen holding a full bucket
Refilled(c, later) ==
    IF ~Has(tbBuckets, c) THEN capacity * Milli
    ELSE Min(capacity * Milli,
             tbBuckets[c].tokens
                 + (later - tbBuckets[c].lastRefill) * refillRate)

\* C31: every check, allowed or denied, credits the refill and sets
\* lastRefill to the time it read; it is allowed iff the refilled tokens
\* cover the cost, a denied check leaves the refilled tokens and an allowed
\* one the refilled tokens less the cost
C31_RefillOnEveryCheck ==
    [][(algorithm = "TokenBucket" /\ Called) =>
          LET c == Outcome.client
              cost == Outcome.cost.v
          IN  /\ tbBuckets'[c].lastRefill = clock'
              /\ ~Outcome.threw => Outcome.allowed = (Refilled(c, clock') >= cost)
              /\ tbBuckets'[c].tokens =
                    IF ~Outcome.threw /\ Outcome.allowed
                    THEN Refilled(c, clock') - cost
                    ELSE Refilled(c, clock')]_vars

\* a denied check has credited half a token into the bucket it found empty
C31_Witness ==
    /\ algorithm = "TokenBucket"
    /\ \E i \in DOMAIN pending :
          /\ Returned(i)
          /\ ~pending[i].allowed
          /\ pending[i].now = clock
          /\ clock > 0
          /\ tbBuckets[pending[i].client].lastRefill = clock
          /\ tbBuckets[pending[i].client].tokens > 0
          /\ tbBuckets[pending[i].client].tokens < pending[i].cost.v

(***************************************************************************)
(* Sliding-Window Log: the stored log and what check reports of it.        *)
(***************************************************************************)
Sorted(log) == \A i, j \in DOMAIN log : i <= j => log[i] <= log[j]
\* the log without its n oldest entries
Newest(log, n) == SubSeq(log, n + 1, Len(log))

\* C32: with a non-decreasing clock every stored log is in non-decreasing
\* order and holds at most maxRequests timestamps; right after a check it
\* holds only timestamps later than now - windowMs; a step only drops oldest
\* entries of a log, except that an allowed check appends its own time
C32_LogWellFormed ==
    [][algorithm = "SlidingWindowLog" =>
          \A c \in Clients :
              Has(requestLogs', c) =>
                  LET old == SWGetOrCreate(requestLogs, c)
                      new == requestLogs'[c].log
                      checked == Called /\ Outcome.client = c
                  IN  /\ Sorted(new)
                      /\ Len(new) <= maxRequests
                      /\ checked =>
                            \A i \in DOMAIN new : new[i] > clock' - windowMs
                      /\ \/ \E n \in 0..Len(old) : new = Newest(old, n)
                         \/ /\ checked
                            /\ ~Outcome.threw
                            /\ Outcome.allowed
                            /\ Outcome.now = clock'
                            /\ \E n \in 0..Len(old) :
                                  new = Append(Newest(old, n), clock')]_vars

\* a denied check has left a full log of timestamps taken at different times
C32_Witness ==
    /\ algorithm = "SlidingWindowLog"
    /\ \E i \in DOMAIN pending :
          /\ Returned(i)
          /\ ~pending[i].allowed
          /\ Has(requestLogs, pending[i].client)
          /\ LET log == requestLogs[pending[i].client].log
             IN  /\ Len(log) = maxRequests
                 /\ log[1] < log[Len(log)]
                 /\ log[1] > 0

\* the timestamps of client c that survive the compaction at time now
Surviving(c, now) == cleanLog(SWGetOrCreate(requestLogs, c), now)

\* C33: with n timestamps surviving the compaction, an allowed check returns
\* remaining = maxRequests - (n + 1) and a denied one maxRequests - n, and
\* requestsInWindow is the length of the log once the call has run
C33_RemainingCountsThisCall ==
    [][(algorithm = "SlidingWindowLog" /\ Called /\ ~Outcome.threw) =>
          LET c == Outcome.client
              n == Len(Surviving(c, clock'))
          IN  /\ Outcome.remaining =
                    IF Outcome.allowed THEN maxRequests - (n + 1)
                    ELSE maxRequests - n
              /\ Outcome.requestsInWindow = Len(requestLogs'[c].log)]_vars

\* a second request was admitted after an older timestamp had left the log
C33_Witness ==
    /\ algorithm = "SlidingWindowLog"
    /\ \E i \in DOMAIN pending :
          /\ Returned(i)
          /\ pending[i].allowed
          /\ pending[i].requestsInWindow = 2
          /\ pending[i].remaining = maxRequests - 2
          /\ pending[i].now >= windowMs

\* C34: resetTime is the oldest timestamp of the log the call leaves plus
\* windowMs (the oldest survivor of the compaction when there is one, else
\* the call's own timestamp), whatever the fixed grid, and is later than the
\* time of the call
C34_ResetFromOldest ==
    [][(algorithm = "SlidingWindowLog" /\ Called /\ ~Outcome.threw) =>
          LET c == Outcome.client
              log == requestLogs'[c].log
              kept == Surviving(c, clock')
          IN  /\ Len(log) > 0
              /\ DateParse(Outcome.resetTime) = log[1] + windowMs
              /\ Len(kept) > 0 =>
                    DateParse(Outcome.resetTime) = kept[1] + windowMs
              /\ DateParse(Outcome.resetTime) > Outcome.now]_vars

\* a decision whose resetTime comes from a timestamp older than the call and
\* lies off the grid of windows
C34_Witness ==
    /\ algorithm = "SlidingWindowLog"
    /\ \E i \in DOMAIN pending :
          /\ Returned(i)
          /\ Has(requestLogs, pending[i].client)
          /\ Len(requestLogs[pending[i].client].log) > 1
          /\ requestLogs[pending[i].client].log[1] < pending[i].now
          /\ DateParse(pending[i].resetTime) =
                requestLogs[pending[i].client].log[1] + windowMs
          /\ DateParse(pending[i].resetTime) % windowMs # 0

(***************************************************************************)
(* getLogState between the checks and the sweeps of one client.            *)
(***************************************************************************)
NextLogState ==
    \/ SWSwept(Observed)
    \/ SWGetLogStateSeen(Observed)
    \/ SWCleanup
    \/ Tick
    \/ Idle
    \/ Deliver

SpecLogState == InitLog /\ [][NextLogState]_vars

\* what getLogState(c) returns when called now
LogStateNow(c) == getLogState(requestLogs, c, clock)
\* the report counts the admitted checks of c still in the window
CountsWindow(state, c) ==
    /\ state.totalRequests = Len(admitted[c])
    /\ state.remaining = maxRequests - state.totalRequests
    /\ Len(state.timestamps) = state.totalRequests
    /\ \A i \in DOMAIN state.timestamps :
          DateParse(state.timestamps[i]) = admitted[c][i]

\* C35 as stated: for a client that has been checked getLogState reports
\* the number of its admitted checks still in the window, remaining and the
\* timestamps to match, and so totalRequests = 0 once windowMs has passed
\* without a call
C35_LogStateCountsWindow ==
    \A c \in Clients :
        Has(unswept, c) =>
            /\ LogStateNow(c) # Null
            /\ CountsWindow(LogStateNow(c), c)

\* C35: getLogState reports the number of the client's admitted checks still
\* in the window, remaining and the timestamps to match, for a client whose
\* log is stored; once cleanup() has removed the log, which it does only
\* when no admitted check is left in the window, it returns null
C35_LogStateOrNull ==
    \A c \in Clients :
        Has(unswept, c) =>
            IF Has(requestLogs, c)
            THEN LogStateNow(c) # Null /\ CountsWindow(LogStateNow(c), c)
            ELSE LogStateNow(c) = Null /\ Len(admitted[c]) = 0

\* getLogState has reported two admitted checks of which the stored log
\* still holds a third, older one
C35_Witness ==
    /\ returned # NoReturn
    /\ returned.value # Null
    /\ returned.value = LogStateNow(Observed)
    /\ returned.value.totalRequests = 2
    /\ Len(requestLogs[Observed].log) = 3

(***************************************************************************)
(* The wait a denied check reports.  retry keeps, for the observed client, *)
(* the latest check while it was a denied one: the time it ended (at), the *)
(* seconds it told the caller to wait (wait) and its cost; kept tells that *)
(* the latest check was allowed and came after the wait of a denied one.   *)
(***************************************************************************)
\* the seconds a denied decision tells the caller to wait: retryAfter, and
\* resetIn for FixedWindow, which reports no retryAfter
Wait(result) ==
    IF result.retryAfter = <<>> THEN result.resetIn ELSE result.retryAfter[1]

\* the wait of the denied check kept in retry is over
WaitOver(k) ==
    /\ retry.at >= 0
    /\ retry.cost = k
    /\ clock >= retry.at + retry.wait * 1000

Tried(c, k) ==
    /\ retry' = IF c # Observed THEN retry
                ELSE IF ~Outcome.threw /\ ~Outcome.allowed
                THEN [at |-> clock', wait |-> Wait(Outcome), cost |-> k,
                      kept |-> FALSE]
                ELSE [NoRetry EXCEPT !.kept = WaitOver(k) /\ ~Outcome.threw]
    /\ UNCHANGED <<run, returned, unswept, sweeper, request>>

\* the costs of the retried calls: one token, and the whole capacity
RetryCosts == {Num(Milli), Num(MaxLimit * Milli)}
InCapacity(k) == k.v <= capacity * Milli

FWTried(c) == FWCall(c) /\ Tried(c, Num(1))
SWTried(c) == SWCall(c) /\ Tried(c, Num(1))
TBTried(c, k) == InCapacity(k) /\ TBCall(c, k) /\ Tried(c, k)
LBTried(c, k) == InCapacity(k) /\ LBCall(c, k) /\ Tried(c, k)

NextRetry ==
    \/ \E c \in Clients : FWTried(c)
    \/ \E c \in Clients : SWTried(c)
    \/ \E c \in Clients, k \in RetryCosts : TBTried(c, k)
    \/ \E c \in Clients, k \in RetryCosts : LBTried(c, k)
    \/ FWCleanup
    \/ SWCleanup
    \/ TBCleanup
    \/ LBCleanup
    \/ SWGetLogState(Observed)
    \/ TBGetBucketState(Observed)
    \/ LBGetBucketState(Observed)
    \/ Tick
    \/ Idle
    \/ Deliver

SpecRetry == Init /\ [][NextRetry]_vars

\* C36: for each engine, after a denied check of a cost within the capacity
\* that reports a wait of r seconds, and with no other check of that client
\* in between, a check of the same cost made r seconds later or more is
\* allowed
C36_RetryAfterWaitAllowed ==
    [][(Called /\ Outcome.client = Observed /\ WaitOver(Outcome.cost))
          => (~Outcome.threw /\ Outcome.allowed)]_vars

\* a check made exactly when the reported wait of one second was over has
\* been allowed, with the decision still to be delivered
C36_Witness ==
    /\ retry.kept
    /\ clock = 1000
    /\ ~Quiet
    /\ pending[Len(pending)].client = Observed
    /\ pending[Len(pending)].allowed

(***************************************************************************)
(* The remaining value of a bucket decision against the bucket it leaves.  *)
(***************************************************************************)
\* what getBucketState(c) reports as still available, in thousandths: tokens
\* (TokenBucket), spaceAvailable (LeakyBucket)
StillAvailable(c) ==
    IF algorithm = "TokenBucket"
    THEN TBBucketState(tbBuckets, c, clock).tokens
    ELSE LBBucketState(lbBuckets, c, clock).spaceAvailable

\* C37: the remaining value a Token Bucket or Leaky Bucket check returns is
\* the floor of what is still available after the call's own consumption,
\* which is what getBucketState reports for the client at that instant
C37_RemainingIsAfterCall ==
    [][\A c \in Clients :
          (/\ Called
           /\ algorithm \in {"TokenBucket", "LeakyBucket"}
           /\ Outcome.client = c
           /\ ~Outcome.threw)
          => Outcome.remaining = FloorDiv(StillAvailable(c)', Milli)]_vars

(***************************************************************************)
(* What a denied check of a window limiter leaves behind.                  *)
(***************************************************************************)
\* the times, from now on, at which the next call is looked at
RetryDelays == {0, 500, 1000, IdleMs}

\* would a check of c made at time t be admitted, the record being store[c]
AdmitsAt(fw, sw, c, t) ==
    IF algorithm = "FixedWindow" THEN FWDecision(fw, c, t).allowed
    ELSE SWDecision(sw, c, t).allowed

\* the record of c is as a denied call has to leave it: untouched
\* (FixedWindow), the log it found less the aged-out timestamps
\* (SlidingWindowLog)
DeniedLeaves(c) ==
    IF algorithm = "FixedWindow" THEN clients'[c] = clients[c]
    ELSE /\ Has(requestLogs, c)
         /\ requestLogs'[c].log = cleanLog(requestLogs[c].log, clock)

\* C38: a denied check of a Fixed Window or Sliding-Window Log limiter
\* leaves the client's count / log unchanged but for the aged-out
\* timestamps, and the time at which the next call is admitted is the same
\* after the denied call as before it
C38_DeniedLeavesRecord ==
    [][\A c \in Clients :
          (/\ Called
           /\ algorithm \in {"FixedWindow", "SlidingWindowLog"}
           /\ Outcome.client = c
           /\ ~Outcome.threw
           /\ ~Outcome.allowed)
          => /\ DeniedLeaves(c)
             /\ \A d \in RetryDelays :
                   AdmitsAt(clients', requestLogs', c, clock + d)
                      = AdmitsAt(clients, requestLogs, c, clock + d)]_vars

\* two denied calls of one client are waiting to be delivered, the client's
\* record full and no fuller
C38_Witness ==
    /\ algorithm \in {"FixedWindow", "SlidingWindowLog"}
    /\ Len(pending) = 2
    /\ \A i \in 1..2 : /\ pending[i].client = Observed
                        /\ ~pending[i].threw
                        /\ ~pending[i].allowed
    /\ algorithm = "FixedWindow" => clients[Observed].count = maxRequests
    /\ algorithm = "SlidingWindowLog" =>
          Len(requestLogs[Observed].log) = maxRequests

(***************************************************************************)
(* A TokenBucketRateLimiter and a LeakyBucketRateLimiter side by side,     *)
(* constructed with the same capacity and rate and given the same calls at *)
(* the same times; tbBuckets is the Map of the first, lbBuckets of the     *)
(* second, and pending holds the two decisions of each call.               *)
(***************************************************************************)
Paired == "TokenBucket and LeakyBucket"

\* the capacities of the pair: the small ones, and one that takes more
\* than the idle time of cleanup to refill
PairCapacities == {Num(n) : n \in 1..MaxLimit} \cup {TBSlowOptions.capacity}

InitPair ==
    /\ clock \in StartClocks
    /\ algorithm = Paired
    /\ \E n \in PairCapacities, r \in Rates :
          /\ options = [capacity |-> n, refillRate |-> r, leakRate |-> r]
          /\ capacity = OrDefault(n, TBDefaultCapacity)
          /\ refillRate = OrDefault(r, TBDefaultRefillRate)
          /\ leakRate = OrDefault(r, LBDefaultLeakRate)
    /\ tokensPerRequest = TBDefaultTokensPerRequest
    /\ windowMs = 0 /\ maxRequests = 0
    /\ clients = EmptyStore
    /\ tbBuckets = EmptyStore
    /\ lbBuckets = EmptyStore
    /\ requestLogs = EmptyStore
    /\ pending = <<>>
    /\ admitted = [c \in Clients |-> <<>>]
    /\ sinceNew = [c \in Clients |-> 0]
    /\ solo = [store |-> EmptyStore, out |-> <<>>]
    /\ run = NoRun
    /\ returned = NoReturn
    /\ unswept = EmptyStore
    /\ sweeper = startCleanup
    /\ retry = NoRetry
    /\ request = NoRequest

\* the costs of the calls: one unit and the whole of a small capacity, and
\* the whole of the large one
PairCosts ==
    {Num(Milli), Num(MaxLimit * Milli), Num(TBSlowOptions.capacity.v * Milli)}
PairCost(k) ==
    /\ InCapacity(k)
    /\ capacity > MaxLimit => k.v = capacity * Milli

\* tb.check(c, k) and lb.check(c, k) with the same clock readings
PairCheck(c, k) ==
    /\ PairCost(k)
    /\ CanCall
    /\ \E d \in LaterReads :
        /\ clock' = clock + d
        /\ tbBuckets' = [tbBuckets EXCEPT ![c] =
              TBAfter(tbBuckets, c, k, clock, clock + d)]
        /\ lbBuckets' = [lbBuckets EXCEPT ![c] =
              LBAfter(lbBuckets, c, k, clock, clock + d)]
        /\ pending' = Settle(
              [client |-> c,
               tb |-> TBDecision(tbBuckets, c, k, clock, clock + d),
               lb |-> LBDecision(lbBuckets, c, k, clock, clock + d)])
    /\ solo' = [solo EXCEPT !.out = Append(@, NotObserved)]
    /\ UNCHANGED <<config, clients, requestLogs, admitted, sinceNew, run,
                   returned, unswept, sweeper, retry, request>>

\* the sweeper of the Token Bucket instance runs
PairTBCleanup ==
    /\ Quiet
    /\ tbBuckets' = TBSweep(tbBuckets, clock)
    /\ tbBuckets' # tbBuckets
    /\ UNCHANGED <<config, clock, clients, lbBuckets, requestLogs, pending,
                   history, sweeper, retry, request>>

\* the sweeper of the Leaky Bucket instance runs
PairLBCleanup ==
    /\ Quiet
    /\ lbBuckets' = LBSweep(lbBuckets, clock, clock)
    /\ lbBuckets' # lbBuckets
    /\ UNCHANGED <<config, clock, clients, tbBuckets, requestLogs, pending,
                   history, sweeper, retry, request>>

NextPair ==
    \/ \E c \in Clients, k \in PairCosts : PairCheck(c, k)
    \/ PairTBCleanup
    \/ PairLBCleanup
    \/ Tick
    \/ Idle
    \/ Deliver

SpecPair == InitPair /\ [][NextPair]_vars

\* C39: a Token Bucket and a Leaky Bucket of the same capacity and rate,
\* given the same check calls at the same times, return the same allowed
\* flag on every call, and after every call the client's tokens are the
\* capacity less the client's size
C39_SameDecisions ==
    [][\A c \in Clients :
          (Called /\ Outcome.client = c)
          => /\ ~Outcome.tb.threw /\ ~Outcome.lb.threw
             /\ Outcome.tb.allowed = Outcome.lb.allowed
             /\ tbBuckets'[c].tokens = capacity * Milli - lbBuckets'[c].size]_vars

(***************************************************************************)
(* createRateLimiter(rateLimiter, options): the Express middleware.  One   *)
(* request at a time goes through rateLimiterMiddleware(req, res, next);   *)
(* request.next and request.handler count the calls of next() and of the   *)
(* rate-limit handler for it, status and retryAfter are what the response  *)
(* carries, result is what the awaited check gave.                         *)
(***************************************************************************)
\* what a callback handed to the middleware (options.handler, next) does
\* when it is called
Callbacks == {"returns", "throws"}

\* the limiters the middleware is given: the valid ones, and a log limiter
\* whose check throws (maxRequests below zero, SWThrows)
MwOptions(a) ==
    ValidOptions(a) \cup
    (IF a = "SlidingWindowLog"
     THEN {[windowMs |-> Num(1000), maxRequests |-> Num(0 - 1)]} ELSE {})

InitMw ==
    /\ clock \in StartClocks
    /\ \E a \in Algorithms : \E o \in MwOptions(a) : Construct(a, o)

Arrived(c) == [NoRequest EXCEPT !.phase = "awaiting", !.client = c]

\* lines 88-94: keyGenerator(req) gives the client and rateLimiter.check
\* (clientId) is called; the middleware waits for its promise
MwReceive(c) ==
    /\ Quiet
    /\ request.phase # "awaiting"
    /\ \/ FWCall(c)
       \/ SWCall(c)
       \/ TBCall(c, Num(tokensPerRequest * Milli))
       \/ LBCall(c, Num(Milli))
    /\ request' = Arrived(c)
    /\ UNCHANGED <<run, returned, unswept, sweeper, retry>>

\* lines 89-91 and 141-149: keyGenerator(req) throws (no req.ip and no
\* req.connection); the catch block calls next()
MwNoKey ==
    /\ Quiet
    /\ request.phase # "awaiting"
    /\ request' = [NoRequest EXCEPT !.phase = "done", !.next = 1]
    /\ UNCHANGED <<config, clock, stores, pending, history, sweeper, retry>>

\* lines 94-139: the decision in hand, the 429 branch; handler is called
\* inside the try block, so a handler that throws lands in the catch block,
\* which calls next()
Denied(result, h) ==
    [request EXCEPT !.phase = "done",
                    !.result = result,
                    !.retryAfter = <<result.resetIn>>,
                    !.handler = @ + 1,
                    !.status = IF h = "returns" THEN 429 ELSE @,
                    !.next = IF h = "throws" THEN @ + 1 ELSE @]

\* lines 120-139: the request goes on; next() is called inside the try
\* block, so a next() that throws is followed by the next() of the catch
\* block
Proceeds(result, n) ==
    [request EXCEPT !.phase = "done",
                    !.result = result,
                    !.next = IF n = "throws" THEN @ + 2 ELSE @ + 1]

\* lines 141-149: check threw; the catch block calls next() (fail open)
FailsOpen(result) ==
    [request EXCEPT !.phase = "done", !.result = result, !.next = @ + 1]

\* the middleware resumes with the outcome of the check it awaited
MwResume(h, n) ==
    /\ request.phase = "awaiting"
    /\ ~Quiet
    /\ pending' = Tail(pending)
    /\ solo' = [solo EXCEPT !.out = Tail(@)]
    /\ request' = IF Head(pending).threw THEN FailsOpen(Head(pending))
                  ELSE IF Head(pending).allowed THEN Proceeds(Head(pending), n)
                  ELSE Denied(Head(pending), h)
    /\ UNCHANGED <<config, clock, stores, admitted, sinceNew, run, returned,
                   unswept, sweeper, retry>>

NextMw ==
    \/ \E c \in Clients : MwReceive(c)
    \/ MwNoKey
    \/ \E h \in Callbacks, n \in Callbacks : MwResume(h, n)
    \/ Tick
    \/ Idle

SpecMw == InitMw /\ [][NextMw]_vars

\* C40: for every request exactly one of next() and the rate-limit handler
\* is invoked, and once: next() when check returned allowed or threw, the
\* handler, with status 429 and Retry-After = resetIn, when check returned
\* denied, and a denied request never reaches next()
C40_OneOfNextAndHandler ==
    request.phase = "done" =>
       /\ request.next + request.handler = 1
       /\ request.result # NoRequest.result =>
             IF request.result.threw \/ request.result.allowed
             THEN request.next = 1
             ELSE /\ request.handler = 1
                  /\ request.next = 0
                  /\ request.status = 429
                  /\ request.retryAfter = <<request.result.resetIn>>
====
